---- MODULE Spec2Model ----
(***************************************************************************)
(* Model of the account swap core of vscode-claude-statusbar                *)
(* (src/unnamed/part_001): the live credential file, the two candidate     *)
(* config files, the Registry document (sequence.json), the two archive    *)
(* directories, and the handlers saveCurrentAccount and switchToAccount     *)
(* with the helpers they call.                                              *)
(*                                                                         *)
(* A file is a record with a `kind` field; NoFile is the absent file.       *)
(* Texts are modelled by what the code reads from them:                     *)
(*   - a credential text by the access token it holds;                      *)
(*   - a config text by its oauthAccount value, the value of its other      *)
(*     keys, and its layout (fmt): JSON.parse drops the layout and          *)
(*     JSON.stringify(data, null, 2) always produces the "pretty" layout,   *)
(*     so a config that went through writeJSON is a different text from     *)
(*     the one the CLI wrote ("raw") although its keys are equal;           *)
(*   - an archived credential by the base64 wrapper around the text.        *)
(* Timestamps (lastUpdated, added) are left out: no branch reads them.      *)
(*                                                                         *)
(* The commands run saveCurrentAccount and switchToAccount as one step     *)
(* each, refreshAll included (its snapshot is kept with the outcome of the *)
(* call). The actions P_* run saveCurrentAccount one file operation at a   *)
(* time, in several processes with their own temp files, and the actions   *)
(* R_* run refreshAll from one await to the next. `perm` keeps the files   *)
(* of mode 0600 and the paths on which chmod or rename fails.              *)
(***************************************************************************)
EXTENDS Integers, Sequences, FiniteSets, TLC

VARIABLES
    creds,        \* CREDS_FILE: the live credential file
    cfg,          \* the live config files, by candidate path
    reg,          \* SEQUENCE_FILE: the Registry document
    credsDir,     \* CREDENTIALS_DIR: account number -> .creds-<num>.enc
    configsDir,   \* CONFIGS_DIR: account number -> .claude-config-<num>.json
    legacy,       \* both directories' files named in the (number, email) scheme
    activated,    \* the extension's activate() has run
    cliConfig,    \* the candidate path the CLI keeps its config at
    faults,       \* the manual edits and crashes so far
    last,         \* the last call: operation, argument, outcome
    allocated,    \* history: the numbers nextNum has handed to a save
    snap,         \* observer: the live files at a mark and the calls since
    proc,         \* per process running saveCurrentAccount: its position and locals
    tmpFiles,     \* SEQUENCE_FILE.<pid>.tmp, by process
    refresh,      \* per refreshAll call in flight: its position and locals
    perm          \* the files of mode 0600, and the paths chmod and rename fail on

vars == <<creds, cfg, reg, credsDir, configsDir, legacy, activated, cliConfig, faults, last,
         allocated, snap, proc, tmpFiles, refresh, perm>>
files == <<creds, cfg, reg, credsDir, configsDir, legacy, perm>>

\* ---- bounds --------------------------------------------------------------

\* Account numbers the model lets nextNum allocate (saves stop beyond it).
MaxNum == 2

\* Manual edits and crashes in one behaviour.
MaxFaults == 1

\* Files named in the (number, email) scheme that an older version left.
MaxLegacyFiles == 3

\* Length of the longest access token whose characters are modelled.
MaxTokenLen == 13

\* Processes (extension hosts) that run saveCurrentAccount side by side.
MaxProcs == 2

Nums == 1..MaxNum
Pids == 1..MaxProcs

\* The refreshAll calls in flight at a time (the timer does not wait for the
\* call before).
MaxRefreshes == 1

RefreshIds == 1..MaxRefreshes

\* ---- values --------------------------------------------------------------

NoFile == [kind |-> "nofile"]
Null == [kind |-> "null"]
NoSub == "-"
NoOAuth == "-"

\* Values of a claim that a JavaScript condition takes as false: the absent
\* claim and the empty string.
EmptySub == ""
Falsy == {NoSub, EmptySub}
NoOther == "-"

ConfigPaths == {"primary", "fallback"}

\* Email addresses: the ones older versions put into archive file names, and
\* the ones tokens claim.
Emails == {"a@x", "b@x"}
NoEmail == "-"

\* The files .creds-<num>-<email>.enc and .claude-config-<num>-<email>.json.
NoLegacy ==
    [creds |-> [n \in Nums |-> [e \in Emails |-> NoFile]],
     configs |-> [n \in Nums |-> [e \in Emails |-> NoFile]]]

\* Access tokens: two signed tokens carrying the `sub` claim of one account
\* (a token and its refreshed successor), and the opaque token of another.
JwtS1a == [kind |-> "jwt", sub |-> "s1", id |-> "a"]
JwtS1b == [kind |-> "jwt", sub |-> "s1", id |-> "b"]
Opaque == [kind |-> "opaque", sub |-> NoSub, id |-> "o"]
NoToken == [kind |-> "none", sub |-> NoSub, id |-> "-"]

Tokens == {JwtS1a, JwtS1b, Opaque}

CredsOf(token) == [kind |-> "creds", token |-> token]

\* Credential texts a login can leave in the live file.
LoginCreds == {CredsOf(t) : t \in Tokens}

\* ---- file helpers --------------------------------------------------------

\* The file system as one value, threaded through the handlers.
FS == [creds |-> creds, cfg |-> cfg, reg |-> reg,
       credsDir |-> credsDir, configsDir |-> configsDir, legacy |-> legacy, perm |-> perm]

SEQUENCE_FILE == "sequence"

File(f, filePath) == IF filePath = SEQUENCE_FILE THEN f.reg ELSE f.cfg[filePath]

SetFile(f, filePath, text) ==
    IF filePath = SEQUENCE_FILE THEN [f EXCEPT !.reg = text]
    ELSE [f EXCEPT !.cfg[filePath] = text]

\* A text that is being written: what an open, truncated file holds until
\* the last byte is in. JSON.parse rejects it.
PartialText == [kind |-> "partial"]

\* Mutant: no temp file, the text is written over filePath itself.
TmpPath_InPlace(filePath, pid) == [file |-> filePath, tmp |-> 0]

\* filePath + "." + process.pid + ".tmp" (tmp 0: filePath itself).
TmpPath(filePath, pid) == [file |-> filePath, tmp |-> pid]

\* ---- file modes -------------------------------------------------------------

\* A path: a live file (num 0), the number-only archive file of an account,
\* or the archive file of a record named in the (number, email) scheme.
Path(dir, num) == [dir |-> dir, num |-> num]

LivePaths == {Path(d, 0) : d \in {"creds", SEQUENCE_FILE} \cup ConfigPaths}

LegacyPaths == {Path(d, n) : d \in {"legacy-credentials", "legacy-configs"}, n \in Nums}

Paths == LivePaths \cup {Path(d, n) : d \in {"credentials", "configs"}, n \in Nums}
            \cup LegacyPaths

\* A file system on which every chmod fails and every rename succeeds: no
\* file is ever of mode 0600.
NoChmod == [private |-> {}, noChmod |-> Paths, noRename |-> {}]

\* fs.writeFileSync(path, ...): a file that did not exist is created with
\* the mode the umask leaves, one that existed keeps its mode.
WriteFileSync(f, path, existed) ==
    IF existed THEN f ELSE [f EXCEPT !.perm.private = @ \ {path}]

\* try { fs.chmodSync(path, 0o600); } catch {}
chmodSync(f, path) ==
    IF path \in f.perm.noChmod THEN f ELSE [f EXCEPT !.perm.private = @ \cup {path}]

\* A JSON text: the document it parses to, and its layout.
JsonText(doc, fmt) == [kind |-> "json", doc |-> doc, fmt |-> fmt]

\* A text JSON.parse rejects.
JunkText == [kind |-> "junk"]

\* JSON.parse(fs.readFileSync(filePath)), null on any failure.
readJSON(f, filePath) ==
    LET text == File(f, filePath)
    IN  IF text.kind = "json" THEN text.doc ELSE Null

\* JSON.stringify(data, null, 2) written to a new temp file, which is renamed
\* to filePath (the file is then of the temp file's mode) and chmod-ed.
writeJSON(f, filePath, data) ==
    chmodSync(WriteFileSync(SetFile(f, filePath, JsonText(data, "pretty")),
                            Path(filePath, 0), FALSE),
              Path(filePath, 0))

\* A config document: its oauthAccount value and the value of its other keys.
ConfigDoc(oauth, other) == [kind |-> "obj", oauth |-> oauth, other |-> other]

EmptyObject == ConfigDoc(NoOAuth, NoOther)

readCurrentCredentials(f) == IF f.creds = NoFile THEN Null ELSE f.creds

\* Mutant: the live credential file is left as it is.
writeCurrentCredentials_Keep(f, text) == f

writeCurrentCredentials(f, text) ==
    chmodSync(WriteFileSync([f EXCEPT !.creds = text], Path("creds", 0), f.creds # NoFile),
              Path("creds", 0))


getToken(credsText) ==
    IF credsText.kind = "creds" /\ credsText.token # NoToken THEN credsText.token
    ELSE Null

Base64Encode(text) == [kind |-> "b64", text |-> text]

\* A file of the credentials directory that is not the base64 encoding of a
\* credential text; `chars`: it holds characters of the base64 alphabet.
Undecodable(chars) == [kind |-> "raw", chars |-> chars]

\* The text decoded from characters that encode no credential text.
GarbledText == [kind |-> "garbled"]

\* The text of no characters.
EmptyText == [kind |-> "empty"]

\* Buffer.from(raw, "base64").toString("utf8") does not throw: characters
\* outside the alphabet are passed over, the others are decoded to bytes,
\* and bytes that are no utf8 become replacement characters.
Base64Decode(raw) ==
    IF raw.kind = "b64" THEN raw.text
    ELSE IF raw.chars THEN GarbledText
    ELSE EmptyText

readBackupCreds(f, num) ==
    IF f.credsDir[num] = NoFile THEN Null ELSE Base64Decode(f.credsDir[num])

writeBackupCreds(f, num, text) ==
    chmodSync(WriteFileSync([f EXCEPT !.credsDir[num] = Base64Encode(text)],
                            Path("credentials", num), f.credsDir[num] # NoFile),
              Path("credentials", num))

readBackupConfig(f, num) ==
    IF f.configsDir[num] = NoFile THEN Null ELSE f.configsDir[num]

\* Mutant: the config is archived as JSON.stringify would write it again.
writeBackupConfig_Reserialised(f, num, text) ==
    [f EXCEPT !.configsDir[num] =
        IF text.kind = "json" THEN [kind |-> "json", doc |-> text.doc, fmt |-> "pretty"]
        ELSE text]

writeBackupConfig(f, num, text) ==
    chmodSync(WriteFileSync([f EXCEPT !.configsDir[num] = text],
                            Path("configs", num), f.configsDir[num] # NoFile),
              Path("configs", num))

\* Mutant: the primary path is chosen whenever its file parses.
getConfigPath_IfParses(f) ==
    LET d == readJSON(f, "primary")
    IN  IF d # Null THEN "primary" ELSE "fallback"

getConfigPath(f) ==
    LET d == readJSON(f, "primary")
    IN  IF d # Null /\ d.oauth # NoOAuth THEN "primary" ELSE "fallback"

\* ---- migration -----------------------------------------------------------

\* Mutant: the rename is made whether or not the number-only name is taken
\* (renameSync replaces the file of that name).
migrateBackupFilenames_Overwrite(f, data) ==
    LET has(n) == n \in DOMAIN data.accounts /\ data.accounts[n].email \in Emails
        old(dir, n) == dir[n][data.accounts[n].email]
        movesCreds(n) == has(n) /\ old(f.legacy.creds, n) # NoFile
        movesConfig(n) == has(n) /\ old(f.legacy.configs, n) # NoFile
    IN  IF data = Null THEN f
        ELSE [f EXCEPT
                !.credsDir = [n \in Nums |->
                    IF movesCreds(n) THEN old(f.legacy.creds, n) ELSE f.credsDir[n]],
                !.configsDir = [n \in Nums |->
                    IF movesConfig(n) THEN old(f.legacy.configs, n) ELSE f.configsDir[n]],
                !.legacy = [creds |-> [n \in Nums |-> [e \in Emails |->
                               IF movesCreds(n) /\ e = data.accounts[n].email
                               THEN NoFile ELSE f.legacy.creds[n][e]]],
                            configs |-> [n \in Nums |-> [e \in Emails |->
                               IF movesConfig(n) /\ e = data.accounts[n].email
                               THEN NoFile ELSE f.legacy.configs[n][e]]]]]

\* Mutant: the file is copied to the number-only name and left in place.
migrateBackupFilenames_Copy(f, data) ==
    LET has(n) == n \in DOMAIN data.accounts /\ data.accounts[n].email \in Emails
        old(dir, n) == dir[n][data.accounts[n].email]
    IN  IF data = Null THEN f
        ELSE [f EXCEPT
                !.credsDir = [n \in Nums |->
                    IF has(n) /\ old(f.legacy.creds, n) # NoFile /\ f.credsDir[n] = NoFile
                    THEN old(f.legacy.creds, n) ELSE f.credsDir[n]],
                !.configsDir = [n \in Nums |->
                    IF has(n) /\ old(f.legacy.configs, n) # NoFile /\ f.configsDir[n] = NoFile
                    THEN old(f.legacy.configs, n) ELSE f.configsDir[n]]]

\* The file of a record named in the (number, email) scheme, the file of the
\* number-only name it is to get, and that name.
LegacyFile(f, data, p) ==
    IF p.dir = "legacy-credentials"
    THEN f.legacy.creds[p.num][data.accounts[p.num].email]
    ELSE f.legacy.configs[p.num][data.accounts[p.num].email]

NumberOnlyFile(f, p) ==
    IF p.dir = "legacy-credentials" THEN f.credsDir[p.num] ELSE f.configsDir[p.num]

NewName(p) == Path(IF p.dir = "legacy-credentials" THEN "credentials" ELSE "configs", p.num)

\* The renames the loop comes to: for every record that carries an email, a
\* file named in the (number, email) scheme whose number-only name is free.
Attempted(f, data) ==
    {p \in LegacyPaths :
        /\ p.num \in DOMAIN data.accounts
        /\ data.accounts[p.num].email \in Emails
        /\ LegacyFile(f, data, p) # NoFile
        /\ NumberOnlyFile(f, p) = NoFile}

\* The loop's order: records by number, the credential file of a record
\* before its config file.
Earlier(p, q) ==
    p.num < q.num \/ (p.num = q.num /\ p.dir = "legacy-credentials" /\ q.dir = "legacy-configs")

\* Mutant: no try around renameSync, the first rename that fails ends the
\* loop.
Renamed_UntilFailure(f, data) ==
    {p \in Attempted(f, data) :
        \A q \in Attempted(f, data) \cap f.perm.noRename : Earlier(p, q)}

\* try { fs.renameSync(old, new); } catch {}: the renames that are made.
Renamed(f, data) == Attempted(f, data) \ f.perm.noRename

\* The records are independent of one another, and so are the two
\* directories; a renamed file keeps its mode.
migrateBackupFilenames(f, data) ==
    LET moved == IF data = Null THEN {} ELSE Renamed(f, data)
        movesCreds(n) == Path("legacy-credentials", n) \in moved
        movesConfig(n) == Path("legacy-configs", n) \in moved
        old(dir, n) == dir[n][data.accounts[n].email]
    IN  IF data = Null THEN f
        ELSE [f EXCEPT
                !.credsDir = [n \in Nums |->
                    IF movesCreds(n) THEN old(f.legacy.creds, n) ELSE f.credsDir[n]],
                !.configsDir = [n \in Nums |->
                    IF movesConfig(n) THEN old(f.legacy.configs, n) ELSE f.configsDir[n]],
                !.legacy = [creds |-> [n \in Nums |-> [e \in Emails |->
                               IF movesCreds(n) /\ e = data.accounts[n].email
                               THEN NoFile ELSE f.legacy.creds[n][e]]],
                            configs |-> [n \in Nums |-> [e \in Emails |->
                               IF movesConfig(n) /\ e = data.accounts[n].email
                               THEN NoFile ELSE f.legacy.configs[n][e]]]],
                !.perm.private = (@ \ moved) \cup {NewName(p) : p \in moved \cap @}]

\* ---- token helpers -------------------------------------------------------

\* The email claim of a token, for the tokens that carry one.
EmailOf(token) == IF "email" \in DOMAIN token THEN token.email ELSE NoEmail

\* A payload is decoded from a token of three dot-separated parts whose
\* middle part parses as JSON ("jwt"); a token of three parts whose middle
\* part does not parse ("dotted"), an opaque one and one that is no string
\* ("number": split throws) have none.
decodeJwtPayload(token) ==
    IF token.kind = "jwt"
    THEN [kind |-> "payload", sub |-> token.sub, email |-> EmailOf(token)]
    ELSE Null

\* Mutant: a fingerprint salted with the state of the Registry file.
Fingerprint_Salted(token) ==
    token.kind \o "." \o token.sub \o "." \o token.id \o "." \o EmailOf(token)
        \o (IF reg = NoFile THEN ".0" ELSE ".1")

\* crypto.createHash("sha256").update(token).digest("hex").slice(0, 24):
\* a function of the whole token (every claim in it included), distinct for
\* distinct tokens of the model.
Fingerprint(token) ==
    token.kind \o "." \o token.sub \o "." \o token.id \o "." \o EmailOf(token)

\* Mutant: the identity is the email the token claims, when it claims one
\* (as in the email-keyed versions).
getSubFromCreds_ByEmail(credsText) ==
    LET token == IF credsText.kind = "creds" /\ credsText.token.kind # "none"
                 THEN credsText.token ELSE Null
    IN  IF token = Null THEN NoSub
        ELSE IF token.kind = "jwt" /\ EmailOf(token) # NoEmail THEN EmailOf(token)
        ELSE IF token.kind = "jwt" /\ token.sub # NoSub THEN token.sub
        ELSE "fp-" \o Fingerprint(token)

\* Mutant: no fallback to the fingerprint.
getSubFromCreds_SubOnly(credsText) ==
    LET token == getToken(credsText)
        payload == decodeJwtPayload(token)
    IN  IF token = Null THEN NoSub
        ELSE IF payload # Null /\ payload.sub \notin Falsy THEN payload.sub
        ELSE NoSub

\* `if (sub) return sub`: an empty sub claim is passed over like an absent
\* one. Hashing an access token that is no string throws, which the catch
\* turns into null.
getSubFromCreds(credsText) ==
    LET token == getToken(credsText)
        payload == decodeJwtPayload(token)
    IN  IF token = Null THEN NoSub
        ELSE IF payload # Null /\ payload.sub \notin Falsy THEN payload.sub
        ELSE IF token.kind = "number" THEN NoSub
        ELSE "fp-" \o Fingerprint(token)

\* The email claim of the identity token if it has one, else that of the
\* access token; NoEmail is null.
getEmailHintFromCreds(credsText) ==
    IF credsText.kind # "creds" THEN NoEmail
    ELSE LET idp == IF "idToken" \in DOMAIN credsText
                    THEN decodeJwtPayload(credsText.idToken) ELSE Null
             p == decodeJwtPayload(credsText.token)
         IN  IF idp # Null /\ idp.email # NoEmail THEN idp.email
             ELSE IF p # Null THEN p.email
             ELSE NoEmail

\* ---- sequence helpers ----------------------------------------------------

\* The Registry document.
SeqDoc(active, sequence, accounts) ==
    [kind |-> "obj", activeAccountNumber |-> active, sequence |-> sequence,
     accounts |-> accounts]

\* activeAccountNumber: null is 0.
NoActive == 0

EmptyAccounts == [n \in {} |-> 0]

initSequenceFile(f) ==
    IF f.reg = NoFile
    THEN writeJSON(f, SEQUENCE_FILE, SeqDoc(NoActive, <<>>, EmptyAccounts))
    ELSE f

getSeqData(f) == readJSON(f, SEQUENCE_FILE)

\* Mutant: a record without sub matches every identity.
isSaved_LegacyMatches(data, sub) ==
    IF data = Null \/ sub = NoSub THEN FALSE
    ELSE \E n \in DOMAIN data.accounts : data.accounts[n].sub \in {sub, NoSub}

isSaved(data, sub) ==
    IF data = Null \/ sub = NoSub THEN FALSE
    ELSE \E n \in DOMAIN data.accounts : data.accounts[n].sub = sub

Max(S) == CHOOSE m \in S : \A n \in S : n <= m

Min(S) == CHOOSE m \in S : \A n \in S : m <= n

\* Mutant: the next number is taken from the count of records.
nextNum_Count(data) == Cardinality(DOMAIN data.accounts) + 1

\* Mutant: the numbers that processes in flight have taken are skipped.
nextNum_Reserved(data) ==
    LET nums == DOMAIN data.accounts \cup ({proc[q].num : q \in Pids} \ {0})
    IN  IF nums # {} THEN Max(nums) + 1 ELSE 1

nextNum(data) ==
    LET nums == DOMAIN data.accounts
    IN  IF nums # {} THEN Max(nums) + 1 ELSE 1

\* Object.entries(data.accounts).find(([, a]) => a.sub === sub): the first
\* match in key order, 0 when there is none.
FindBySub(data, sub) ==
    LET hits == {n \in DOMAIN data.accounts : data.accounts[n].sub = sub}
    IN  IF hits = {} THEN 0 ELSE Min(hits)

\* ---- cleanup helpers -----------------------------------------------------

\* Mutant: nothing is cleaned up.
cleanupOrphanedBackups_Nothing(f, data) == f


\* A file is kept only if its whole name is that of a record's number-only
\* file: a file named in the (number, email) scheme starts with the same
\* prefix and is in neither valid set.
cleanupOrphanedBackups(f, data) ==
    LET valid == DOMAIN data.accounts
    IN  [f EXCEPT !.credsDir = [n \in DOMAIN f.credsDir |->
                                    IF n \in valid THEN f.credsDir[n] ELSE NoFile],
                  !.configsDir = [n \in DOMAIN f.configsDir |->
                                    IF n \in valid THEN f.configsDir[n] ELSE NoFile],
                  !.legacy = NoLegacy,
                  !.perm.private = {p \in @ : p \in LivePaths
                                                \/ (p \notin LegacyPaths /\ p.num \in valid)}]

\* ---- account management -------------------------------------------------

\* How a call ends: the files it leaves, the error it throws ("" when it
\* returns), the account number it returns or names in the error, and the
\* account it took for the current one (0: none).
Outcome(f, err, num, cur) == [fs |-> f, err |-> err, num |-> num, cur |-> cur]

OK == ""
ErrNoCreds == "Failed to read credentials"
ErrNoToken == "No active credential token found"
ErrNoIdentity == "Could not determine account identity from token"
ErrAlreadySaved == "This account is already saved"
ErrSameIdentity == "Account-K has the same token identity"
ErrNoAccounts == "No managed accounts"
ErrNotFound == "Account-N not found"
ErrMissingBackup == "Missing backup data for Account-N"
ErrInvalidBackup == "Invalid backup config: missing oauthAccount"
ErrENOENT == "ENOENT"
ErrSyntax == "SyntaxError"
Crashed == "(process died)"

\* Mutant: the identity checks are missing.
SaveError_NoIdentityCheck(credsText, data, configText) ==
    IF credsText = Null THEN [err |-> ErrNoCreds, num |-> 0]
    ELSE IF getToken(credsText) = Null THEN [err |-> ErrNoToken, num |-> 0]
    ELSE IF configText = NoFile THEN [err |-> ErrENOENT, num |-> 0]
    ELSE [err |-> OK, num |-> 0]

\* The precondition checks of saveCurrentAccount, in the order the code
\* makes them: the error thrown and the account number it names.
SaveError(credsText, data, configText) ==
    LET sub == getSubFromCreds(credsText)
    IN  IF credsText = Null THEN [err |-> ErrNoCreds, num |-> 0]
        ELSE IF getToken(credsText) = Null THEN [err |-> ErrNoToken, num |-> 0]
        ELSE IF sub = NoSub THEN [err |-> ErrNoIdentity, num |-> 0]
        ELSE IF isSaved(data, sub) THEN [err |-> ErrAlreadySaved, num |-> 0]
        ELSE IF configText = NoFile THEN [err |-> ErrENOENT, num |-> 0]
        ELSE IF FindBySub(data, sub) # 0
             THEN [err |-> ErrSameIdentity, num |-> FindBySub(data, sub)]
        ELSE [err |-> OK, num |-> 0]

\* The checks of a save on the files f.
SaveCheck(f) ==
    LET f1 == initSequenceFile(f)
    IN  SaveError(readCurrentCredentials(f1), getSeqData(f1), File(f1, getConfigPath(f1)))

\* Mutant: the record is added and its number is not appended to `sequence`.
AddRecord_NoSequence(data, num, email, sub) ==
    SeqDoc(num, data.sequence,
           [n \in DOMAIN data.accounts \cup {num} |->
               IF n = num THEN [email |-> email, sub |-> sub] ELSE data.accounts[n]])

\* data.accounts[num] = { email, sub, added }; data.sequence.push(num);
\* data.activeAccountNumber = num
AddRecord(data, num, email, sub) ==
    SeqDoc(num, Append(data.sequence, num),
           [n \in DOMAIN data.accounts \cup {num} |->
               IF n = num THEN [email |-> email, sub |-> sub] ELSE data.accounts[n]])

\* Mutant: the live credential is archived before the checks are made.
saveRun_ArchiveFirst(f, crash) ==
    LET f1 == initSequenceFile(f)
        credsText == readCurrentCredentials(f1)
        sub == getSubFromCreds(credsText)
        data == getSeqData(f1)
        num == IF nextNum(data) <= MaxNum THEN nextNum(data) ELSE MaxNum
        configText == File(f1, getConfigPath(f1))
        e == SaveCheck(f)
        f2 == writeBackupCreds(f1, num, credsText)
        f3 == writeBackupConfig(f2, num, configText)
        data2 == AddRecord(data, num, "(unknown)", sub)
        f4 == writeJSON(f3, SEQUENCE_FILE, data2)
    IN  IF e.err # OK THEN Outcome(f2, e.err, e.num, 0)
        ELSE IF crash = "archived" THEN Outcome(f3, Crashed, num, 0)
        ELSE Outcome(f4, OK, num, 0)

\* saveCurrentAccount, the process dying at `crash` ("never": it runs to
\* its end; "archived": after the two archive writes).
saveRun(f, crash) ==
    LET f1 == initSequenceFile(f)
        credsText == readCurrentCredentials(f1)
        sub == getSubFromCreds(credsText)
        data == getSeqData(f1)
        num == nextNum(data)
        configText == File(f1, getConfigPath(f1))
        e == SaveCheck(f)
        f2 == writeBackupCreds(f1, num, credsText)
        f3 == writeBackupConfig(f2, num, configText)
        email == IF getEmailHintFromCreds(credsText) # NoEmail
                 THEN getEmailHintFromCreds(credsText) ELSE "(unknown)"
        data2 == AddRecord(data, num, email, sub)
        f4 == writeJSON(f3, SEQUENCE_FILE, data2)
    IN  IF e.err # OK THEN Outcome(f1, e.err, e.num, 0)
        ELSE IF crash = "archived" THEN Outcome(f3, Crashed, num, 0)
        ELSE Outcome(f4, OK, num, 0)

saveCurrentAccount(f) == saveRun(f, "never")

\* Mutant: the Registry's stored pointer is preferred to the live identity.
CurrentAccount_PointerFirst(data, currentSub) ==
    IF data.activeAccountNumber \in DOMAIN data.accounts
    THEN data.activeAccountNumber
    ELSE FindBySub(data, currentSub)

\* The account switchToAccount takes for the current one: the record whose
\* sub is the live credential's, else the Registry's stored pointer.
CurrentAccount(data, currentSub) ==
    IF currentSub # NoSub /\ FindBySub(data, currentSub) # 0
    THEN FindBySub(data, currentSub)
    ELSE data.activeAccountNumber

\* The live blobs archived under the current account before the switch.
BackupCurrent(f, data, currentNum, configPath) ==
    LET cc == readCurrentCredentials(f)
        cf == File(f, configPath)
        f1 == IF cc # Null THEN writeBackupCreds(f, currentNum, cc) ELSE f
    IN  IF currentNum \in DOMAIN data.accounts
        THEN writeBackupConfig(f1, currentNum, cf)
        ELSE f

\* Mutant: only the archived credential is checked.
MissingBackup_CredsOnly(tc, tf) == tc \in {Null, EmptyText}

\* The test for 'Missing backup data'.
MissingBackup(tc, tf) == tc \in {Null, EmptyText} \/ tf \in {Null, EmptyText}

\* Mutant: the switch also rewrites the record's email.
SetActive_FixEmail(data, num) ==
    [data EXCEPT !.activeAccountNumber = num, !.accounts[num].email = "fixed"]

\* data.activeAccountNumber = targetNum
SetActive(data, num) == [data EXCEPT !.activeAccountNumber = num]

\* Mutant: the archived config document replaces the live one.
RestoreOAuth_WholeConfig(currentCfg, tfData) == tfData

\* currentCfg.oauthAccount = tfData.oauthAccount
RestoreOAuth(currentCfg, tfData) == [currentCfg EXCEPT !.oauth = tfData.oauth]

\* switchToAccount, the process dying at `crash` ("never": it runs to its
\* end; "creds": after the live credential is overwritten; "config": after
\* the live config is overwritten).
switchRun(f, targetNum, crash) ==
    LET data == getSeqData(f)
        configPath == getConfigPath(f)
        currentCredsText == readCurrentCredentials(f)
        currentSub == IF currentCredsText # Null
                      THEN getSubFromCreds(currentCredsText) ELSE NoSub
        currentNum == CurrentAccount(data, currentSub)
        backsUp == currentNum \in DOMAIN data.accounts
        cur == IF backsUp THEN currentNum ELSE 0
        f1 == BackupCurrent(f, data, currentNum, configPath)
        tc == readBackupCreds(f1, targetNum)
        tf == readBackupConfig(f1, targetNum)
        f2 == writeCurrentCredentials(f1, tc)
        tfData == tf.doc
        oauth == tfData.oauth
        read == readJSON(f2, configPath)
        currentCfg == IF read # Null THEN read ELSE EmptyObject
        f3 == writeJSON(f2, configPath, RestoreOAuth(currentCfg, tfData))
        data2 == SetActive(data, targetNum)
        f4 == writeJSON(f3, SEQUENCE_FILE, data2)
        f5 == cleanupOrphanedBackups(f4, data2)
    IN  IF data = Null THEN Outcome(f, ErrNoAccounts, 0, 0)
        ELSE IF targetNum \notin DOMAIN data.accounts
             THEN Outcome(f, ErrNotFound, targetNum, 0)
        ELSE IF backsUp /\ File(f, configPath) = NoFile
             THEN Outcome(f, ErrENOENT, 0, cur)
        ELSE IF MissingBackup(tc, tf)
             THEN Outcome(f1, ErrMissingBackup, targetNum, cur)
        ELSE IF crash = "creds" THEN Outcome(f2, Crashed, targetNum, cur)
        ELSE IF tf.kind # "json" THEN Outcome(f2, ErrSyntax, 0, cur)
        ELSE IF oauth = NoOAuth THEN Outcome(f2, ErrInvalidBackup, 0, cur)
        ELSE IF crash = "config" THEN Outcome(f3, Crashed, targetNum, cur)
        ELSE Outcome(f5, OK, targetNum, cur)

\* Mutant: the orphan cleanup also runs when the target is not found.
switchToAccount_CleanupAlways(f, targetNum) ==
    LET r == switchRun(f, targetNum, "never")
    IN  IF r.err = ErrNotFound
        THEN Outcome(cleanupOrphanedBackups(f, getSeqData(f)), r.err, r.num, r.cur)
        ELSE r

switchToAccount(f, targetNum) == switchRun(f, targetNum, "never")

\* ---- the debug snapshot ---------------------------------------------------

\* The characters of a token. A token of the model that spells out no text
\* is a long one: the three dot-separated parts of a signed token, or an
\* opaque key (an element stands for a run of characters).
TokenText(token) ==
    IF "text" \in DOMAIN token THEN token.text
    ELSE IF token.kind = "jwt"
         THEN <<"e", "y", "J", "h", ".", "e", "y", "J", token.sub, token.id,
                EmailOf(token), ".", "s", "i", "g", "n">>
         ELSE <<"s", "k", "-", "a", "n", "t", "-", "o", "a", "t", "0", "1", "-", token.id>>

\* text.slice(0, 8) + "…" + text.slice(-4)
MaskText(text) ==
    SubSeq(text, 1, Min({8, Len(text)})) \o <<"...">>
        \o SubSeq(text, Max({1, Len(text) - 3}), Len(text))

maskToken(token) == IF token = Null THEN Null ELSE MaskText(TokenText(token))

\* Which request for the live account's usage is answered: the one for its
\* row, else the one of the fallback, else none.
Nets == {"row", "fallback", "none"}

\* The account refreshAll and buildDebugData show as active.
ActiveNum(data, currentSub) ==
    IF currentSub # NoSub /\ FindBySub(data, currentSub) # 0
    THEN FindBySub(data, currentSub)
    ELSE data.activeAccountNumber

\* The rows refreshAll builds, in `sequence` order, one for every number of
\* `sequence` that has a record.
Rows(f, data) ==
    LET currentCredsText == readCurrentCredentials(f)
        currentSub == getSubFromCreds(currentCredsText)
        activeNum == ActiveNum(data, currentSub)
        nums == SelectSeq(data.sequence, LAMBDA n : n \in DOMAIN data.accounts)
        row(num) ==
            LET info == data.accounts[num]
                isActive == num = activeNum
                credsText == IF isActive THEN currentCredsText ELSE readBackupCreds(f, num)
                token == getToken(credsText)
            IN  [num |-> num,
                 email |-> info.email,
                 sub |-> IF info.sub # NoSub THEN info.sub ELSE getSubFromCreds(credsText),
                 maskedToken |-> maskToken(token),
                 isActive |-> isActive,
                 hasToken |-> token # Null]
    IN  [i \in 1..Len(nums) |-> row(nums[i])]

buildDebugData(f, rows) ==
    LET account(r) ==
            LET credsText == IF r.isActive THEN readCurrentCredentials(f)
                             ELSE readBackupCreds(f, r.num)
                token == getToken(credsText)
            IN  [num |-> r.num,
                 isActive |-> r.isActive,
                 token |-> IF r.maskedToken # Null THEN r.maskedToken ELSE maskToken(token),
                 sub |-> r.sub,
                 jwtPayload |-> IF token # Null THEN decodeJwtPayload(token) ELSE Null,
                 emailHint |-> r.email]
    IN  [files |-> [CREDS_FILE |-> f.creds # NoFile,
                    CLAUDE_CONFIG_PRIMARY |-> f.cfg["primary"] # NoFile,
                    CLAUDE_CONFIG_FALLBACK |-> f.cfg["fallback"] # NoFile,
                    SEQUENCE_FILE |-> f.reg # NoFile],
         accounts |-> [i \in 1..Len(rows) |-> account(rows[i])]]

\* refreshAll: the snapshot it leaves in lastDebugData. The usage figures
\* themselves are not modelled, only which request was answered.
refreshAll(f, net) ==
    LET seqData == getSeqData(f)
        currentCredsText == readCurrentCredentials(f)
        currentSub == getSubFromCreds(currentCredsText)
        rows == IF seqData # Null THEN Rows(f, seqData) ELSE <<>>
        current == SelectSeq(rows, LAMBDA r : r.isActive)
        token == getToken(currentCredsText)
        singleRow == <<[num |-> 0,
                        email |-> getEmailHintFromCreds(currentCredsText),
                        sub |-> currentSub,
                        maskedToken |-> maskToken(token),
                        isActive |-> TRUE,
                        hasToken |-> TRUE]>>
    IN  IF net = "row" /\ current # <<>> /\ current[1].hasToken
        THEN buildDebugData(f, rows)
        ELSE IF net # "none" /\ token # Null THEN buildDebugData(f, singleRow)
        ELSE buildDebugData(f, <<>>)

\* The snapshots a refreshAll on files f can leave, one per answer of the
\* network.
Refreshed(f) == {refreshAll(f, net) : net \in Nets}

\* ---- the program's calls -------------------------------------------------

Install(f) ==
    /\ creds' = f.creds
    /\ cfg' = f.cfg
    /\ reg' = f.reg
    /\ credsDir' = f.credsDir
    /\ configsDir' = f.configsDir
    /\ legacy' = f.legacy
    /\ perm' = f.perm

\* The observer follows switch calls only, two at most; anything else ends
\* the observation.
Observed(op, arg, r) ==
    IF snap # Null /\ op = "switch" /\ Len(snap.calls) < 2
    THEN [snap EXCEPT !.calls = Append(@, [arg |-> arg, err |-> r.err])]
    ELSE Null

\* The outcome of a call, with the snapshot its refreshAll left (Null: the
\* call did not get to refreshAll).
Called(op, arg, r, debug) ==
    /\ last' = [op |-> op, arg |-> arg, err |-> r.err, num |-> r.num, cur |-> r.cur,
                debug |-> debug]
    /\ snap' = Observed(op, arg, r)
    /\ UNCHANGED <<proc, tmpFiles, refresh>>

NoCall == [op |-> "none", arg |-> 0, err |-> OK, num |-> 0, cur |-> 0, debug |-> Null]

\* A step of the environment: no call of the program.
External ==
    /\ last' = NoCall
    /\ snap' = Null
    /\ UNCHANGED <<proc, tmpFiles, refresh, perm>>

\* The number the next successful save allocates.
Upcoming == nextNum(getSeqData(initSequenceFile(FS)))

\* The command claudeUsage.saveAccount.
SaveCurrentAccount ==
    /\ activated
    /\ SaveCheck(FS).err # OK \/ Upcoming <= MaxNum
    /\ \E r \in {saveCurrentAccount(FS)} :
          /\ Install(r.fs)
          /\ \E debug \in IF r.err = OK THEN Refreshed(r.fs) ELSE {Null} :
                Called("save", 0, r, debug)
          /\ allocated' = IF r.err = OK THEN allocated \cup {r.num} ELSE allocated
    /\ UNCHANGED <<cliConfig, faults, activated>>

\* The command claudeUsage.switchTo.
SwitchToAccount(targetNum) ==
    /\ activated
    /\ \E r \in {switchToAccount(FS, targetNum)} :
          /\ Install(r.fs)
          /\ \E debug \in IF r.err = OK THEN Refreshed(r.fs) ELSE {Null} :
                Called("switch", targetNum, r, debug)
    /\ UNCHANGED <<cliConfig, faults, allocated, activated>>

Fault ==
    /\ faults < MaxFaults
    /\ faults' = faults + 1
    /\ UNCHANGED <<cliConfig, activated>>

\* The process dies inside saveCurrentAccount, after the archive writes and
\* before the Registry is persisted.
SaveCrash ==
    /\ activated
    /\ Fault
    /\ SaveCheck(FS).err = OK
    /\ Upcoming <= MaxNum
    /\ \E r \in {saveRun(FS, "archived")} :
          /\ r.err = Crashed
          /\ Install(r.fs)
          /\ Called("save", 0, r, Null)
          /\ allocated' = allocated \cup {r.num}

\* The process dies inside switchToAccount, after a live file is overwritten
\* and before the Registry is persisted.
SwitchCrash(targetNum, crash) ==
    /\ activated
    /\ Fault
    /\ \E r \in {switchRun(FS, targetNum, crash)} :
          /\ r.err = Crashed
          /\ Install(r.fs)
          /\ Called("switch", targetNum, r, Null)
    /\ UNCHANGED allocated

\* activate(): the migration of the archive file names, once at startup,
\* and the first refresh.
Activate ==
    /\ ~activated
    /\ activated' = TRUE
    /\ \E f \in {migrateBackupFilenames(FS, getSeqData(FS))} :
          /\ Install(f)
          /\ \E debug \in Refreshed(f) :
                Called("activate", 0, Outcome(f, OK, 0, 0), debug)
    /\ UNCHANGED <<cliConfig, faults, allocated>>

\* The command claudeUsage.refresh, and the poll timer.
Refresh ==
    /\ activated
    /\ \E debug \in Refreshed(FS) : Called("refresh", 0, Outcome(FS, OK, 0, 0), debug)
    /\ UNCHANGED <<files, cliConfig, faults, allocated, activated>>

\* ---- saveCurrentAccount step by step, in several processes ------------------

\* A process that has not called saveCurrentAccount. `out` and `next` are
\* the document writeJSON is writing and the statement after it; `err` and
\* `num` are what the call threw or returned once pc is "done".
Idle ==
    [pc |-> "idle", credsText |-> Null, data |-> Null, configPath |-> "-",
     configText |-> NoFile, num |-> 0, out |-> Null, next |-> "-", err |-> OK]

ErrTypeError == "TypeError"

\* What no step of a save writes.
StepFrame ==
    UNCHANGED <<creds, cfg, legacy, activated, cliConfig, last, allocated, snap, refresh,
                perm>>

Goto(p, r) == proc' = [proc EXCEPT ![p] = r]

Throw(p, err) == Goto(p, [proc[p] EXCEPT !.pc = "done", !.err = err])

\* fs.writeFileSync(path, text) and fs.renameSync(from, to) on the Registry
\* path and its temp files.
WriteFile(path, text) ==
    IF path.tmp = 0
    THEN reg' = text /\ UNCHANGED tmpFiles
    ELSE tmpFiles' = [tmpFiles EXCEPT ![path.tmp] = text] /\ UNCHANGED reg

RenameFile(from) ==
    IF from.tmp = 0
    THEN UNCHANGED <<reg, tmpFiles>>
    ELSE reg' = tmpFiles[from.tmp] /\ tmpFiles' = [tmpFiles EXCEPT ![from.tmp] = NoFile]

\* initSequenceFile: fs.existsSync(SEQUENCE_FILE), and the document to write
\* when it is absent.
P_Begin(p) ==
    /\ proc[p].pc = "idle"
    /\ activated
    /\ Goto(p, IF reg = NoFile
               THEN [proc[p] EXCEPT !.pc = "write", !.next = "readCreds",
                                    !.out = SeqDoc(NoActive, <<>>, EmptyAccounts)]
               ELSE [proc[p] EXCEPT !.pc = "readCreds"])
    /\ StepFrame
    /\ UNCHANGED <<reg, credsDir, configsDir, tmpFiles, faults>>

\* writeJSON: the temp file is opened and truncated, its text not yet whole.
P_Write(p) ==
    /\ proc[p].pc = "write"
    /\ WriteFile(TmpPath(SEQUENCE_FILE, p), PartialText)
    /\ Goto(p, [proc[p] EXCEPT !.pc = "writeRest"])
    /\ StepFrame
    /\ UNCHANGED <<credsDir, configsDir, faults>>

\* writeJSON: the last byte of the text is written.
P_WriteRest(p) ==
    /\ proc[p].pc = "writeRest"
    /\ WriteFile(TmpPath(SEQUENCE_FILE, p), JsonText(proc[p].out, "pretty"))
    /\ Goto(p, [proc[p] EXCEPT !.pc = "rename"])
    /\ StepFrame
    /\ UNCHANGED <<credsDir, configsDir, faults>>

\* writeJSON: fs.renameSync(tmp, filePath).
P_Rename(p) ==
    /\ proc[p].pc = "rename"
    /\ RenameFile(TmpPath(SEQUENCE_FILE, p))
    /\ Goto(p, [proc[p] EXCEPT !.pc = "chmod"])
    /\ StepFrame
    /\ UNCHANGED <<credsDir, configsDir, faults>>

\* writeJSON: fs.chmodSync(filePath, 0o600), and the return of the save
\* after its last write.
P_Chmod(p) ==
    /\ proc[p].pc = "chmod"
    /\ Goto(p, [proc[p] EXCEPT !.pc = IF proc[p].next = "return" THEN "done"
                                      ELSE proc[p].next])
    /\ StepFrame
    /\ UNCHANGED <<reg, credsDir, configsDir, tmpFiles, faults>>

\* readCurrentCredentials, getToken, getSubFromCreds and their throws.
P_ReadCreds(p) ==
    /\ proc[p].pc = "readCreds"
    /\ LET credsText == readCurrentCredentials(FS)
       IN  IF credsText = Null THEN Throw(p, ErrNoCreds)
           ELSE IF getToken(credsText) = Null THEN Throw(p, ErrNoToken)
           ELSE IF getSubFromCreds(credsText) = NoSub THEN Throw(p, ErrNoIdentity)
           ELSE Goto(p, [proc[p] EXCEPT !.pc = "getSeqData", !.credsText = credsText])
    /\ StepFrame
    /\ UNCHANGED <<reg, credsDir, configsDir, tmpFiles, faults>>

\* getSeqData, isSaved, nextNum (which throws on a Registry that did not
\* parse).
P_GetSeqData(p) ==
    /\ proc[p].pc = "getSeqData"
    /\ LET data == getSeqData(FS)
           sub == getSubFromCreds(proc[p].credsText)
       IN  IF data = Null THEN Throw(p, ErrTypeError)
           ELSE IF isSaved(data, sub) THEN Throw(p, ErrAlreadySaved)
           ELSE /\ nextNum(data) <= MaxNum
                /\ Goto(p, [proc[p] EXCEPT !.pc = "getConfigPath", !.data = data,
                                            !.num = nextNum(data)])
    /\ StepFrame
    /\ UNCHANGED <<reg, credsDir, configsDir, tmpFiles, faults>>

P_GetConfigPath(p) ==
    /\ proc[p].pc = "getConfigPath"
    /\ Goto(p, [proc[p] EXCEPT !.pc = "readConfig", !.configPath = getConfigPath(FS)])
    /\ StepFrame
    /\ UNCHANGED <<reg, credsDir, configsDir, tmpFiles, faults>>

\* fs.readFileSync(configPath), and the duplicate check on the document
\* read before.
P_ReadConfig(p) ==
    /\ proc[p].pc = "readConfig"
    /\ LET configText == File(FS, proc[p].configPath)
           sub == getSubFromCreds(proc[p].credsText)
       IN  IF configText = NoFile THEN Throw(p, ErrENOENT)
           ELSE IF FindBySub(proc[p].data, sub) # 0 THEN Throw(p, ErrSameIdentity)
           ELSE Goto(p, [proc[p] EXCEPT !.pc = "writeBackupCreds",
                                        !.configText = configText])
    /\ StepFrame
    /\ UNCHANGED <<reg, credsDir, configsDir, tmpFiles, faults>>

\* writeBackupCreds(num, credsText)
P_WriteBackupCreds(p) ==
    /\ proc[p].pc = "writeBackupCreds"
    /\ credsDir' = writeBackupCreds(FS, proc[p].num, proc[p].credsText).credsDir
    /\ Goto(p, [proc[p] EXCEPT !.pc = "writeBackupConfig"])
    /\ StepFrame
    /\ UNCHANGED <<reg, configsDir, tmpFiles, faults>>

\* writeBackupConfig(num, configText), and the new record put into the
\* document read before.
P_WriteBackupConfig(p) ==
    /\ proc[p].pc = "writeBackupConfig"
    /\ LET credsText == proc[p].credsText
           email == IF getEmailHintFromCreds(credsText) # NoEmail
                    THEN getEmailHintFromCreds(credsText) ELSE "(unknown)"
       IN  /\ configsDir' = writeBackupConfig(FS, proc[p].num,
                                              proc[p].configText).configsDir
           /\ Goto(p, [proc[p] EXCEPT
                         !.pc = "write", !.next = "return",
                         !.out = AddRecord(proc[p].data, proc[p].num, email,
                                           getSubFromCreds(credsText))])
    /\ StepFrame
    /\ UNCHANGED <<reg, credsDir, tmpFiles, faults>>

\* The process dies inside the call.
P_Die(p) ==
    /\ proc[p].pc \notin {"idle", "done", "dead"}
    /\ Fault
    /\ Goto(p, [proc[p] EXCEPT !.pc = "dead"])
    /\ UNCHANGED <<creds, cfg, reg, credsDir, configsDir, legacy, last, allocated, snap,
                   tmpFiles, refresh, perm>>

\* ---- refreshAll step by step ------------------------------------------------

\* A refreshAll call is suspended where it awaits fetchUsage: for the rows
\* (all requests are sent before the first answer is awaited) and for the
\* fallback request. saveCurrentAccount and switchToAccount await nothing, so
\* a call of theirs runs between two steps of a refreshAll, never inside one.

\* No refreshAll in flight. `pending`: the rows whose request is not yet
\* answered; `figures`: the answer for the active row had utilization figures.
NotRefreshing ==
    [pc |-> "idle", seqData |-> Null, credsText |-> Null, rows |-> <<>>, pending |-> {},
     figures |-> FALSE]

\* What fetchUsage resolves to: a document with utilization figures, one
\* without, or null (error, timeout, unparsable body).
Usages == {"figures", "empty", "null"}

\* A step of refreshAll: the files it leaves, its locals, and lastDebugData
\* if the step assigned it (the call has returned: its locals are gone).
Stepped(f, st, debug) == [fs |-> f, st |-> st, debug |-> debug]

\* The row refreshAll shows when no managed row has figures.
SingleRow(currentCredsText) ==
    <<[num |-> 0,
       email |-> getEmailHintFromCreds(currentCredsText),
       sub |-> getSubFromCreds(currentCredsText),
       maskedToken |-> maskToken(getToken(currentCredsText)),
       isActive |-> TRUE,
       hasToken |-> TRUE]>>

\* refreshAll from the end of Promise.all: the rows with figures for the
\* active one, else the fallback request, else an empty snapshot.
refreshRows(f, st) ==
    LET current == SelectSeq(st.rows, LAMBDA r : r.isActive)
    IN  IF current # <<>> /\ st.figures
        THEN Stepped(f, NotRefreshing, buildDebugData(f, st.rows))
        ELSE IF getToken(st.credsText) # Null
             THEN Stepped(f, [st EXCEPT !.pc = "fallback"], Null)
        ELSE Stepped(f, NotRefreshing, buildDebugData(f, <<>>))

\* Mutant: refreshAll creates the Registry file when there is none, as
\* saveCurrentAccount does.
refreshBegin_InitFile(f) ==
    LET g == initSequenceFile(f)
        seqData == getSeqData(g)
        rows == IF seqData # Null THEN Rows(g, seqData) ELSE <<>>
        st == [pc |-> "rows", seqData |-> seqData, credsText |-> readCurrentCredentials(g),
               rows |-> rows,
               pending |-> {k \in 1..Len(rows) : rows[k].hasToken},
               figures |-> FALSE]
    IN  IF st.pending = {} THEN refreshRows(g, st) ELSE Stepped(g, st, Null)

\* refreshAll up to its first suspension: the Registry and the live
\* credential are read, every row reads its credential and sends its request.
refreshBegin(f) ==
    LET seqData == getSeqData(f)
        rows == IF seqData # Null THEN Rows(f, seqData) ELSE <<>>
        st == [pc |-> "rows", seqData |-> seqData, credsText |-> readCurrentCredentials(f),
               rows |-> rows,
               pending |-> {k \in 1..Len(rows) : rows[k].hasToken},
               figures |-> FALSE]
    IN  IF st.pending = {} THEN refreshRows(f, st) ELSE Stepped(f, st, Null)

\* The request of row k is answered.
refreshAnswer(f, st, k, usage) ==
    LET st1 == [st EXCEPT !.pending = @ \ {k},
                          !.figures = IF st.rows[k].isActive THEN usage = "figures" ELSE @]
    IN  IF st1.pending = {} THEN refreshRows(f, st1) ELSE Stepped(f, st1, Null)

\* The fallback request is answered.
refreshFallback(f, st, usage) ==
    IF usage # "null"
    THEN Stepped(f, NotRefreshing, buildDebugData(f, SingleRow(st.credsText)))
    ELSE Stepped(f, NotRefreshing, buildDebugData(f, <<>>))

\* A step of the refreshAll call i.
RefreshStep(i, r) ==
    /\ Install(r.fs)
    /\ refresh' = [refresh EXCEPT ![i] = r.st]
    /\ last' = [NoCall EXCEPT !.op = "refreshAll", !.arg = i, !.debug = r.debug]
    /\ snap' = Null
    /\ UNCHANGED <<proc, tmpFiles, cliConfig, faults, allocated, activated>>

\* The poll timer fires or claudeUsage.refresh is run.
R_Begin(i) ==
    /\ activated
    /\ refresh[i].pc = "idle"
    /\ \E r \in {refreshBegin(FS)} : RefreshStep(i, r)

R_Answer(i, k, usage) ==
    /\ refresh[i].pc = "rows"
    /\ k \in refresh[i].pending
    /\ \E r \in {refreshAnswer(FS, refresh[i], k, usage)} : RefreshStep(i, r)

R_Fallback(i, usage) ==
    /\ refresh[i].pc = "fallback"
    /\ \E r \in {refreshFallback(FS, refresh[i], usage)} : RefreshStep(i, r)

\* ---- the environment -----------------------------------------------------

\* The account a token belongs to, and the oauthAccount the CLI writes for it.
Owner(token) == IF token.kind = "jwt" THEN token.sub ELSE "s2"

OAuthOf(credsText) == "oa-" \o Owner(credsText.token)

Others == {"x", "y"}

\* What the CLI writes: its config file with one key changed.
CliConfigWith(oauth, other) ==
    [cfg EXCEPT ![cliConfig] = JsonText(ConfigDoc(oauth, other), "raw")]

\* The CLI logs in (or refreshes its token): it writes the live credential
\* and the oauthAccount of its config file, keeping the file's other keys.
Login(credsText) ==
    /\ creds' = credsText
    /\ cfg' = CliConfigWith(OAuthOf(credsText), cfg[cliConfig].doc.other)
    /\ cfg' # cfg \/ creds' # creds
    /\ External
    /\ UNCHANGED <<reg, credsDir, configsDir, legacy, activated, cliConfig, faults, allocated>>

\* The CLI logs out: the live credential is removed and the CLI's config file
\* is left without oauthAccount.
Logout ==
    /\ creds # NoFile
    /\ creds' = NoFile
    /\ cfg' = CliConfigWith(NoOAuth, cfg[cliConfig].doc.other)
    /\ External
    /\ UNCHANGED <<reg, credsDir, configsDir, legacy, activated, cliConfig, faults, allocated>>

\* The CLI changes a setting unrelated to identity.
EditSettings(other) ==
    /\ cfg[cliConfig].doc.other # other
    /\ cfg' = CliConfigWith(cfg[cliConfig].doc.oauth, other)
    /\ External
    /\ UNCHANGED <<creds, reg, credsDir, configsDir, legacy, activated, cliConfig, faults,
                   allocated>>

\* A manual edit of the Registry's active pointer.
EditActivePointer(num) ==
    /\ Fault
    /\ reg # NoFile
    /\ reg.doc.activeAccountNumber # num
    /\ reg' = JsonText([reg.doc EXCEPT !.activeAccountNumber = num], reg.fmt)
    /\ External
    /\ UNCHANGED <<creds, cfg, credsDir, configsDir, legacy, allocated>>

Remove(seq, num) == SelectSeq(seq, LAMBDA x : x # num)

\* A manual edit that removes a record from the Registry.
RemoveRecord(num) ==
    /\ Fault
    /\ reg # NoFile
    /\ num \in DOMAIN reg.doc.accounts
    /\ reg' = JsonText(SeqDoc(reg.doc.activeAccountNumber,
                              Remove(reg.doc.sequence, num),
                              [n \in DOMAIN reg.doc.accounts \ {num} |->
                                  reg.doc.accounts[n]]), reg.fmt)
    /\ External
    /\ UNCHANGED <<creds, cfg, credsDir, configsDir, legacy, allocated>>

\* An archive file is deleted by hand.
DeleteBackup(num, dir) ==
    /\ Fault
    /\ \/ /\ dir = "credentials"
          /\ credsDir[num] # NoFile
          /\ credsDir' = [credsDir EXCEPT ![num] = NoFile]
          /\ UNCHANGED configsDir
       \/ /\ dir = "configs"
          /\ configsDir[num] # NoFile
          /\ configsDir' = [configsDir EXCEPT ![num] = NoFile]
          /\ UNCHANGED credsDir
    /\ External
    /\ UNCHANGED <<creds, cfg, reg, legacy, allocated>>

\* An archived credential is overwritten by hand (or by a failing disk)
\* with content that encodes no credential text.
CorruptBackup(num, chars) ==
    /\ Fault
    /\ credsDir[num] # NoFile
    /\ credsDir' = [credsDir EXCEPT ![num] = Undecodable(chars)]
    /\ External
    /\ UNCHANGED <<creds, cfg, reg, configsDir, legacy, allocated>>

\* A file appears, by hand, at the candidate config path that is not the
\* CLI's: one that does not parse, or a config with or without oauthAccount.
StrayConfigs ==
    {JunkText, JsonText(ConfigDoc(NoOAuth, "y"), "raw"), JsonText(ConfigDoc("oa-s2", "y"), "raw")}

StrayConfig(text) ==
    /\ Fault
    /\ cfg' = [p \in ConfigPaths |-> IF p = cliConfig THEN cfg[p] ELSE text]
    /\ cfg' # cfg
    /\ External
    /\ UNCHANGED <<creds, reg, credsDir, configsDir, legacy, allocated>>

\* ---- specification -------------------------------------------------------

\* A machine on which the CLI is installed, with its config at one of the
\* candidate paths, and never logged in; the extension was activated for the
\* first time and found nothing to migrate.
Init ==
    /\ cliConfig \in ConfigPaths
    /\ creds = NoFile
    /\ cfg = [p \in ConfigPaths |->
                 IF p = cliConfig THEN JsonText(ConfigDoc(NoOAuth, "x"), "raw")
                 ELSE NoFile]
    /\ reg = NoFile
    /\ credsDir = [n \in Nums |-> NoFile]
    /\ configsDir = [n \in Nums |-> NoFile]
    /\ legacy = NoLegacy
    /\ activated = TRUE
    /\ faults = 0
    /\ last = NoCall
    /\ allocated = {}
    /\ snap = Null
    /\ proc = [p \in Pids |-> Idle]
    /\ tmpFiles = [p \in Pids |-> NoFile]
    /\ refresh = [i \in RefreshIds |-> NotRefreshing]
    /\ perm = NoChmod

\* ---- a machine an older version ran on ------------------------------------

\* The token of the identity that goes by an email address.
EmailToken(e) ==
    [kind |-> "jwt", sub |-> IF e = "a@x" THEN "s1" ELSE "s2", id |-> "a", email |-> e]

\* What the email-keyed version archived for the identity of email e:
\* the base64 of its credential text, and its config text.
LegacyCredsFile(e) == Base64Encode(CredsOf(EmailToken(e)))
LegacyConfigFile(e) == JsonText(ConfigDoc("oa-" \o EmailToken(e).sub, "x"), "raw")

\* The records of the email-keyed version: an email and no sub.
LegacyRegistry ==
    JsonText(SeqDoc(1, <<1, 2>>, [n \in Nums |->
                [email |-> IF n = 1 THEN "a@x" ELSE "b@x", sub |-> NoSub]]), "pretty")

\* The same with one account saved.
LegacyRegistryOne ==
    JsonText(SeqDoc(1, <<1>>, [n \in {1} |-> [email |-> "a@x", sub |-> NoSub]]), "pretty")

LegacyFileCount(l) ==
    Cardinality({<<d, n, e>> \in {"creds", "configs"} \X Nums \X Emails : l[d][n][e] # NoFile})

\* The archive directories an older version leaves: its switch archives the
\* live blobs under the stored pointer's number and the email of the live
\* config, which need not be the record's email.
LegacyDirs ==
    {l \in [creds : [Nums -> [Emails -> {NoFile} \cup {LegacyCredsFile(e) : e \in Emails}]],
            configs : [Nums -> [Emails -> {NoFile} \cup {LegacyConfigFile(e) : e \in Emails}]]] :
        /\ LegacyFileCount(l) <= MaxLegacyFiles
        /\ \A n \in Nums, e \in Emails :
              /\ l.creds[n][e] \in {NoFile, LegacyCredsFile(e)}
              /\ l.configs[n][e] \in {NoFile, LegacyConfigFile(e)}}

\* A machine on which the email-keyed version saved one or two accounts, and on
\* which this version may have archived account 1 since; this version is
\* about to be activated.
InitLegacy ==
    /\ cliConfig = "fallback"
    /\ creds = NoFile
    /\ cfg = [p \in ConfigPaths |->
                 IF p = cliConfig THEN JsonText(ConfigDoc(NoOAuth, "x"), "raw")
                 ELSE NoFile]
    /\ reg \in {LegacyRegistry, LegacyRegistryOne}
    /\ credsDir \in {[n \in Nums |-> IF n = 1 THEN c ELSE NoFile] :
                        c \in {NoFile, Base64Encode(CredsOf(JwtS1b))}}
    /\ configsDir \in {[n \in Nums |-> IF n = 1 THEN c ELSE NoFile] :
                        c \in {NoFile, JsonText(ConfigDoc("oa-s1", "y"), "raw")}}
    /\ legacy \in LegacyDirs
    /\ activated = FALSE
    /\ faults = 0
    /\ last = NoCall
    /\ allocated = {}
    /\ snap = Null
    /\ proc = [p \in Pids |-> Idle]
    /\ tmpFiles = [p \in Pids |-> NoFile]
    /\ refresh = [i \in RefreshIds |-> NotRefreshing]
    /\ perm = NoChmod

\* ---- a file system that refuses a chmod or a rename --------------------------

\* The paths on which chmod or rename fails, at most.
MaxDenied == 1

\* The archive files of the records, as the email-keyed version left them:
\* named in the (number, email) scheme.
OwnLegacy(data) ==
    [creds |-> [n \in Nums |-> [e \in Emails |->
                   IF n \in DOMAIN data.accounts /\ data.accounts[n].email = e
                   THEN LegacyCredsFile(e) ELSE NoFile]],
     configs |-> [n \in Nums |-> [e \in Emails |->
                   IF n \in DOMAIN data.accounts /\ data.accounts[n].email = e
                   THEN LegacyConfigFile(e) ELSE NoFile]]]

\* The email-keyed version chmod-ed what it archived; chmod fails on some
\* paths and rename on some files.
Denials(data) ==
    {[private |-> {p \in LegacyPaths : p.num \in DOMAIN data.accounts},
      noChmod |-> c, noRename |-> r] :
        <<c, r>> \in {d \in (SUBSET (Paths \ LegacyPaths)) \X (SUBSET LegacyPaths) :
                         Cardinality(d[1]) + Cardinality(d[2]) <= MaxDenied}}

\* A machine on which the email-keyed version saved one or two accounts; this
\* version is about to be activated.
InitPerm ==
    /\ cliConfig = "fallback"
    /\ creds = NoFile
    /\ cfg = [p \in ConfigPaths |->
                 IF p = cliConfig THEN JsonText(ConfigDoc(NoOAuth, "x"), "raw")
                 ELSE NoFile]
    /\ reg \in {LegacyRegistry, LegacyRegistryOne}
    /\ credsDir = [n \in Nums |-> NoFile]
    /\ configsDir = [n \in Nums |-> NoFile]
    /\ legacy = OwnLegacy(reg.doc)
    /\ perm \in Denials(reg.doc)
    /\ activated = FALSE
    /\ faults = 0
    /\ last = NoCall
    /\ allocated = {}
    /\ snap = Null
    /\ proc = [p \in Pids |-> Idle]
    /\ tmpFiles = [p \in Pids |-> NoFile]
    /\ refresh = [i \in RefreshIds |-> NotRefreshing]

\* ---- tokens that claim an email --------------------------------------------

Jwt(sub, id, email) == [kind |-> "jwt", sub |-> sub, id |-> id, email |-> email]

\* Signed tokens with an email claim: of one identity under two emails, of
\* another identity under the first one's email, and one without a sub claim.
EmailTokens ==
    {Jwt("s1", "a", "a@x"), Jwt("s1", "a", "b@x"), Jwt("s2", "a", "a@x"),
     Jwt(NoSub, "a", "b@x")}

\* A credential text with an identity token next to the access token.
CredsWithId(token, idToken) == [kind |-> "creds", token |-> token, idToken |-> idToken]

EmailCreds ==
    {CredsOf(t) : t \in EmailTokens}
    \cup {CredsWithId(Opaque, Jwt(NoSub, "i", "b@x"))}

\* ---- tokens of every shape --------------------------------------------------

\* A decodable token without a sub claim, one with an empty sub claim, a
\* token of three parts that is not decodable, and an access token that is a
\* number.
JwtNoSub == [kind |-> "jwt", sub |-> NoSub, id |-> "n"]
JwtEmptySub == [kind |-> "jwt", sub |-> EmptySub, id |-> "e"]
Dotted == [kind |-> "dotted", sub |-> NoSub, id |-> "d"]
NumberToken == [kind |-> "number", sub |-> NoSub, id |-> "7"]

ShapeTokens == {JwtS1a, JwtNoSub, JwtEmptySub, Dotted, Opaque, NumberToken, NoToken}

ShapeCreds == {CredsOf(t) : t \in ShapeTokens}

\* ---- short access tokens ----------------------------------------------------

\* A text of `len` characters, all "a" but for a "b" at `pos` (none: 0).
Text(len, pos) == [i \in 1..len |-> IF i = pos THEN "b" ELSE "a"]

TokenTexts == {Text(len, pos) : len \in 1..MaxTokenLen, pos \in 0..MaxTokenLen}

\* An opaque access token that is the text.
TextToken(text) ==
    [kind |-> "opaque", sub |-> NoSub, id |-> ToString(text), text |-> text]

\* Credential texts with access tokens up to and beyond the characters
\* maskToken shows.
DebugCreds == {CredsOf(TextToken(Text(len, 0))) : len \in {3, 8, 12, MaxTokenLen}}

\* The observer marks a state in which a saved account is live.
Mark ==
    /\ snap = Null
    /\ reg # NoFile
    /\ FindBySub(reg.doc, getSubFromCreds(readCurrentCredentials(FS))) # 0
    /\ snap' = [kind |-> "snap", creds |-> creds, cfg |-> cfg,
                acct |-> FindBySub(reg.doc, getSubFromCreds(readCurrentCredentials(FS))),
                calls |-> <<>>]
    /\ UNCHANGED <<creds, cfg, reg, credsDir, configsDir, legacy, activated, cliConfig, faults,
                   last, allocated, proc, tmpFiles, refresh, perm>>

\* The calls of the program, the CLI's own writes, crashes and manual edits.
Next ==
    \/ SaveCurrentAccount
    \/ \E n \in Nums : SwitchToAccount(n)
    \/ \E c \in LoginCreds : Login(c)
    \/ Logout
    \/ \E o \in Others : EditSettings(o)
    \/ SaveCrash
    \/ \E n \in Nums, c \in {"creds", "config"} : SwitchCrash(n, c)
    \/ \E n \in Nums \cup {NoActive} : EditActivePointer(n)
    \/ \E n \in Nums : RemoveRecord(n)
    \/ \E n \in Nums, d \in {"credentials", "configs"} : DeleteBackup(n, d)

Spec == Init /\ [][Next]_vars

\* The commands on a machine where a file is damaged or planted by hand.
NextCorrupt ==
    \/ SaveCurrentAccount
    \/ \E n \in Nums : SwitchToAccount(n)
    \/ \E c \in LoginCreds : Login(c)
    \/ Logout
    \/ \E n \in Nums, chars \in BOOLEAN : CorruptBackup(n, chars)
    \/ \E text \in StrayConfigs : StrayConfig(text)

SpecCorrupt == Init /\ [][NextCorrupt]_vars

\* The commands and the CLI, with refreshAll calls in flight.
NextRefresh ==
    \/ SaveCurrentAccount
    \/ \E n \in Nums : SwitchToAccount(n)
    \/ \E c \in {CredsOf(JwtS1a), CredsOf(Opaque)} : Login(c)
    \/ \E i \in RefreshIds : R_Begin(i)
    \/ \E i \in RefreshIds, k \in Nums, u \in Usages : R_Answer(i, k, u)
    \/ \E i \in RefreshIds, u \in Usages : R_Fallback(i, u)

SpecRefresh == Init /\ [][NextRefresh]_vars

\* Activation and the commands on a file system that refuses a chmod or a
\* rename.
NextPerm ==
    \/ Activate
    \/ SaveCurrentAccount
    \/ \E n \in Nums : SwitchToAccount(n)
    \/ \E e \in Emails : Login(CredsOf(EmailToken(e)))

SpecPerm == InitPerm /\ [][NextPerm]_vars

\* No crash and no manual edit.
NextUser ==
    \/ SaveCurrentAccount
    \/ \E n \in Nums : SwitchToAccount(n)
    \/ \E c \in LoginCreds : Login(c)
    \/ Logout
    \/ \E o \in Others : EditSettings(o)

SpecUser == Init /\ [][NextUser]_vars

\* No crash and no manual edit, with the observer.
NextObserved ==
    \/ Mark
    \/ SaveCurrentAccount
    \/ \E n \in Nums : SwitchToAccount(n)
    \/ \E c \in LoginCreds : Login(c)
    \/ Logout
    \/ \E o \in Others : EditSettings(o)

SpecObserved == Init /\ [][NextObserved]_vars

\* The first activation after an upgrade, and the commands after it.
NextLegacy ==
    \/ Activate
    \/ SaveCurrentAccount
    \/ \E n \in Nums : SwitchToAccount(n)
    \/ \E e \in Emails : Login(CredsOf(EmailToken(e)))
    \/ Logout

SpecLegacy == InitLegacy /\ [][NextLegacy]_vars

\* The commands, the CLI logging in with tokens that claim an email.
NextEmail ==
    \/ SaveCurrentAccount
    \/ \E n \in Nums : SwitchToAccount(n)
    \/ \E c \in EmailCreds : Login(c)
    \/ Logout

SpecEmail == Init /\ [][NextEmail]_vars

\* Saves, the CLI logging in with tokens of every shape.
NextShape ==
    \/ SaveCurrentAccount
    \/ \E c \in ShapeCreds : Login(c)
    \/ Logout

SpecShape == Init /\ [][NextShape]_vars

\* Two processes that each run saveCurrentAccount once, their file
\* operations interleaved, the CLI logging in meanwhile; one may die.
NextProc ==
    \/ \E p \in Pids :
          \/ P_Begin(p)
          \/ P_Write(p)
          \/ P_WriteRest(p)
          \/ P_Rename(p)
          \/ P_Chmod(p)
          \/ P_ReadCreds(p)
          \/ P_GetSeqData(p)
          \/ P_GetConfigPath(p)
          \/ P_ReadConfig(p)
          \/ P_WriteBackupCreds(p)
          \/ P_WriteBackupConfig(p)
          \/ P_Die(p)
    \/ \E c \in {CredsOf(JwtS1a), CredsOf(Opaque)} : Login(c)

SpecProc == Init /\ [][NextProc]_vars

\* The commands and the refresh, the CLI logging in with short tokens.
NextDebug ==
    \/ SaveCurrentAccount
    \/ \E n \in Nums : SwitchToAccount(n)
    \/ \E c \in DebugCreds : Login(c)
    \/ Refresh

SpecDebug == Init /\ [][NextDebug]_vars

\* ---- properties ----------------------------------------------------------

\* The live config document of files f: the one at the path getConfigPath picks.
LiveConfig(f) == readJSON(f, getConfigPath(f))

\* The observer saw switchToAccount(B) and then switchToAccount(A) return,
\* A being the account that was live and saved at the mark.
RoundTripDone ==
    /\ snap # Null
    /\ Len(snap.calls) = 2
    /\ snap.calls[1].err = OK
    /\ snap.calls[2].err = OK
    /\ snap.calls[2].arg = snap.acct

\* C1: round trip. With A and B saved and A live, switchToAccount(B) followed
\* by switchToAccount(A), nothing else in between, leaves the live credential
\* text equal to the text before the first switch, the live config's
\* oauthAccount equal to its value before, and its other keys unchanged.
C1_RoundTrip ==
    RoundTripDone =>
        /\ creds = snap.creds
        /\ LiveConfig(FS) # Null
        /\ LiveConfig(FS).oauth = LiveConfig(snap).oauth
        /\ LiveConfig(FS).other = LiveConfig(snap).other

\* A round trip through a different account, after which the live credential
\* is not the one A was saved with.
C1_Witness ==
    /\ RoundTripDone
    /\ snap.calls[1].arg # snap.acct
    /\ creds = CredsOf(JwtS1b)
    /\ LiveConfig(FS).other = "y"

\* The records of the Registry (none while the document is absent).
Accounts == IF reg = NoFile THEN EmptyAccounts ELSE reg.doc.accounts

\* The identity the live credential resolves to.
LiveSub == getSubFromCreds(readCurrentCredentials(FS))

\* The record the live credential matches in the Registry, 0 when none.
LiveAccount == IF reg = NoFile THEN 0 ELSE FindBySub(reg.doc, LiveSub)

\* The live config text a save or switch reads.
LiveConfigText == File(FS, getConfigPath(FS))

\* C2: uniqueness. After any sequence of saves and switches, no two records
\* of `accounts` carry the same sub.
C2_UniqueSub ==
    \A m, n \in DOMAIN Accounts : m # n => Accounts[m].sub # Accounts[n].sub

\* Two records, and a save of a refreshed token of a saved account was
\* just rejected.
C2_Witness ==
    /\ Cardinality(DOMAIN Accounts) = 2
    /\ last.op = "save"
    /\ last.err # OK
    /\ creds = CredsOf(JwtS1b)
    /\ \E n \in DOMAIN Accounts :
          Accounts[n].sub = "s1" /\ credsDir[n] = Base64Encode(CredsOf(JwtS1a))

\* C3: a save whose live credential resolves to a sub already recorded fails
\* and leaves the Registry, every archive file and both live files as they
\* were.
C3_DuplicateSaveChangesNothing ==
    [][(last'.op = "save" /\ LiveAccount # 0)
          => (last'.err # OK /\ UNCHANGED files)]_vars

\* A save of an account already recorded was rejected.
C3_Witness ==
    /\ last.op = "save"
    /\ last.err = ErrAlreadySaved
    /\ LiveAccount # 0
    /\ credsDir[LiveAccount] # Base64Encode(creds)

\* C4: the error of a save rejected because the live sub is the sub of
\* record K names the account number K.
C4_ErrorNamesAccount ==
    (last.op = "save" /\ last.err # OK /\ LiveAccount # 0)
        => last.num = LiveAccount

\* C5: the live credential's sub being that of record K and the stored
\* pointer another number, switchToAccount(J) archives the live credential
\* and config under K, as they were before J's blobs are installed, and
\* writes nothing under the stale pointer's number.
C5_ArchivesUnderLiveIdentity ==
    [][(/\ last'.op = "switch"
        /\ last'.arg \in DOMAIN Accounts
        /\ LiveAccount # 0
        /\ reg.doc.activeAccountNumber # LiveAccount
        /\ LiveConfigText # NoFile)
          => (/\ last'.cur = LiveAccount
              /\ credsDir'[LiveAccount] = Base64Encode(creds)
              /\ configsDir'[LiveAccount] = LiveConfigText
              /\ \A p \in Nums \ {LiveAccount} :
                    /\ credsDir'[p] \in {credsDir[p], NoFile}
                    /\ configsDir'[p] \in {configsDir[p], NoFile})]_vars

\* A switch that did not reach the Registry write took for the current account
\* a record other than the one the stored pointer names, and archived the
\* live credential it found under it.
C5_Witness ==
    /\ last.op = "switch"
    /\ last.err \in {ErrInvalidBackup, ErrMissingBackup}
    /\ last.cur # 0
    /\ reg.doc.activeAccountNumber \in DOMAIN Accounts \ {last.cur}
    /\ last.arg # last.cur
    /\ credsDir[last.cur] # NoFile
    /\ Accounts[last.cur].sub = getSubFromCreds(Base64Decode(credsDir[last.cur]))

\* C6: switchToAccount takes for the current account the record whose sub is
\* the live credential's; the stored pointer is used only if no live
\* credential is readable.
C6_PointerOnlyWithoutCredential ==
    [][(last'.op = "switch" /\ last'.cur # 0 /\ readCurrentCredentials(FS) # Null)
          => last'.cur = LiveAccount]_vars

C8_FreshNumber ==
    [][(last'.op = "save" /\ last'.err = OK)
          => (/\ last'.num \notin DOMAIN Accounts
              /\ last'.num \in DOMAIN reg'.doc.accounts
              /\ \A n \in DOMAIN Accounts :
                    /\ n \in DOMAIN reg'.doc.accounts
                    /\ reg'.doc.accounts[n] = Accounts[n])]_vars

\* A second save allocated the number 2 and left record 1 in place.
C8_Witness ==
    /\ last.op = "save"
    /\ last.err = OK
    /\ last.num = 2
    /\ DOMAIN Accounts = {1, 2}
    /\ Accounts[1].sub # Accounts[2].sub
    /\ credsDir[1] # NoFile

\* C9: a save never allocates a number that an earlier save (one that
\* crashed before persisting the Registry included) already allocated.
C9_NumbersNeverReused ==
    [][(last'.op = "save" /\ last'.err = OK) => last'.num \notin allocated]_vars

\* C10: after a successful switch no archive file of a number outside
\* `accounts` is left, and the archive files of the numbers in `accounts` are
\* as before, but for those of the current account, which hold the live blobs
\* the switch archived.
C10_OrphanCleanupExact ==
    [][(last'.op = "switch" /\ last'.err = OK)
          => \A n \in Nums :
                IF n \notin DOMAIN reg'.doc.accounts
                THEN credsDir'[n] = NoFile /\ configsDir'[n] = NoFile
                ELSE /\ \/ credsDir'[n] = credsDir[n]
                        \/ n = last'.cur /\ credsDir'[n] = Base64Encode(creds)
                     /\ \/ configsDir'[n] = configsDir[n]
                        \/ n = last'.cur /\ configsDir'[n] = LiveConfigText]_vars

\* After a successful switch the archive files of a number that was allocated
\* and is no record are gone, and those of the records are there.
C10_Witness ==
    /\ last.op = "switch"
    /\ last.err = OK
    /\ \E n \in allocated \ DOMAIN Accounts :
          credsDir[n] = NoFile /\ configsDir[n] = NoFile
    /\ \A n \in DOMAIN Accounts : credsDir[n] # NoFile /\ configsDir[n] # NoFile
    /\ faults = 1
    /\ last.cur # 0

\* ---- migration and cleanup of the archive file names ---------------------

\* The archive files of files f whose name encodes the number n: the
\* number-only ones and the ones named in the (number, email) scheme.
ArchiveFilesOf(f, n) ==
    LET file(d, e) == IF e = NoEmail
                      THEN (IF d = "creds" THEN f.credsDir[n] ELSE f.configsDir[n])
                      ELSE f.legacy[d][n][e]
    IN  {de \in {"creds", "configs"} \X (Emails \cup {NoEmail}) :
            file(de[1], de[2]) # NoFile}

\* C11: a switch deletes an archive file only if the account number its name
\* encodes is no key of `accounts`, whichever of the two naming schemes the
\* file is named in.
C11_CleanupDeletesOnlyOrphans ==
    [][(last'.op = "switch" /\ last'.err = OK)
          => \A n \in DOMAIN reg'.doc.accounts :
                ArchiveFilesOf(FS, n) \subseteq ArchiveFilesOf(FS', n)]_vars

\* C12: activation leaves, for every record (num, email) that had a file
\* named (num, email) and no number-only file, a number-only file with that
\* file's contents and no file named (num, email); the credential directory
\* and the config directory each on its own.
C12_LegacyMigration ==
    [][last'.op = "activate"
          => \A n \in DOMAIN Accounts :
                LET e == Accounts[n].email
                IN  /\ (e \in Emails /\ legacy.creds[n][e] # NoFile /\ credsDir[n] = NoFile)
                        => (credsDir'[n] = legacy.creds[n][e]
                            /\ legacy'.creds[n][e] = NoFile)
                    /\ (e \in Emails /\ legacy.configs[n][e] # NoFile
                            /\ configsDir[n] = NoFile)
                        => (configsDir'[n] = legacy.configs[n][e]
                            /\ legacy'.configs[n][e] = NoFile)]_vars

\* Activation has renamed the credential file of account 1 and left its
\* config file, whose number-only name was taken, under the old name.
C12_Witness ==
    /\ last.op = "activate"
    /\ credsDir[1] = LegacyCredsFile("a@x")
    /\ legacy.creds[1]["a@x"] = NoFile
    /\ configsDir[1] = JsonText(ConfigDoc("oa-s1", "y"), "raw")
    /\ legacy.configs[1]["a@x"] = LegacyConfigFile("a@x")

\* ---- what a successful switch installs ------------------------------------

\* C13: a successful switchToAccount(N) sets the oauthAccount of the live
\* config document to that of N's archived config and leaves the document's
\* other keys as they were (none, if there was no document); nothing else
\* of N's archived config reaches the live config, and the config file at
\* the other candidate path is not touched.
C13_OnlyOAuthAccountRestored ==
    [][(last'.op = "switch" /\ last'.err = OK)
          => LET path == getConfigPath(FS)
                 before == readJSON(FS, path)
                 after == readJSON(FS', path)
                 archived == configsDir'[last'.arg].doc
             IN  /\ after # Null
                 /\ after.oauth = archived.oauth
                 /\ after.other = IF before # Null THEN before.other ELSE NoOther
                 /\ \A q \in ConfigPaths \ {path} : cfg'[q] = cfg[q]]_vars

\* A switch has installed the oauthAccount of a config archived with other
\* settings than the live ones, and the live settings are still there.
C13_Witness ==
    /\ last.op = "switch"
    /\ last.err = OK
    /\ last.cur \notin {0, last.arg}
    /\ LiveConfig(FS).oauth = configsDir[last.arg].doc.oauth
    /\ LiveConfig(FS).oauth # configsDir[last.cur].doc.oauth
    /\ LiveConfig(FS).other # configsDir[last.arg].doc.other

\* C14: after a successful switchToAccount(N) the live credential file is
\* the text the switch read from N's archive (the live text itself, if N was
\* the current account and had just been archived), and the Registry's
\* activeAccountNumber is N.
C14_InstallsArchivedCredential ==
    [][(last'.op = "switch" /\ last'.err = OK)
          => /\ creds' = IF last'.cur = last'.arg /\ creds # NoFile
                         THEN creds
                         ELSE Base64Decode(credsDir[last'.arg])
             /\ reg'.doc.activeAccountNumber = last'.arg]_vars

\* A switch away from the current account has installed the other account's
\* archived credential and moved the pointer.
C14_Witness ==
    /\ last.op = "switch"
    /\ last.err = OK
    /\ last.cur \notin {0, last.arg}
    /\ creds = Base64Decode(credsDir[last.arg])
    /\ creds # Base64Decode(credsDir[last.cur])
    /\ reg.doc.activeAccountNumber = last.arg

\* ---- the Registry document ------------------------------------------------

\* The `sequence` of the Registry (empty while the document is absent).
Sequence == IF reg = NoFile THEN <<>> ELSE reg.doc.sequence

\* C15: a successful save returns n = nextNum of the Registry before the
\* call; the archived credential of n decodes to the live credential text
\* and the archived config of n is the live config text; accounts[n] is new
\* and carries the live credential's sub; `sequence` is the old one with n
\* appended; activeAccountNumber is n; the records that were there and the
\* archive files of the other numbers are unchanged.
C15_SaveEffects ==
    [][(last'.op = "save" /\ last'.err = OK)
          => LET n == last'.num
             IN  /\ n = Upcoming
                 /\ readBackupCreds(FS', n) = creds
                 /\ readBackupConfig(FS', n) = LiveConfigText
                 /\ n \notin DOMAIN Accounts
                 /\ DOMAIN reg'.doc.accounts = DOMAIN Accounts \cup {n}
                 /\ reg'.doc.accounts[n].sub = LiveSub
                 /\ reg'.doc.sequence = Append(Sequence, n)
                 /\ reg'.doc.activeAccountNumber = n
                 /\ \A k \in DOMAIN Accounts : reg'.doc.accounts[k] = Accounts[k]
                 /\ \A k \in Nums \ {n} :
                       /\ credsDir'[k] = credsDir[k]
                       /\ configsDir'[k] = configsDir[k]
                       /\ legacy'.creds[k] = legacy.creds[k]
                       /\ legacy'.configs[k] = legacy.configs[k]]_vars

\* A second account was saved while the pointer named no record: its
\* config is archived as the CLI wrote it.
C15_Witness ==
    /\ last.op = "save"
    /\ last.err = OK
    /\ last.num = 2
    /\ Sequence = <<1, 2>>
    /\ readBackupCreds(FS, 2) = creds
    /\ configsDir[2] = LiveConfigText
    /\ LiveConfigText.fmt = "raw"
    /\ Accounts[2].sub = LiveSub
    /\ faults = 1

\* C16: a save or a switch that ends in an error leaves the Registry file as
\* it was, and absent if it was absent.
C16_ErrorLeavesRegistry ==
    [][(last'.op \in {"save", "switch"} /\ last'.err \notin {OK, Crashed})
          => reg' = reg]_vars

\* C17: the numbers in `sequence` are the keys of `accounts`, none twice.
C17_SequenceMatchesAccounts ==
    /\ {Sequence[i] : i \in 1..Len(Sequence)} = DOMAIN Accounts
    /\ Len(Sequence) = Cardinality(DOMAIN Accounts)

\* Two saved accounts, and the last call failed.
C17_Witness ==
    /\ Sequence = <<1, 2>>
    /\ DOMAIN Accounts = {1, 2}
    /\ last.op \in {"save", "switch"}
    /\ last.err # OK

\* C18: a switch, however it ends, leaves `accounts` and `sequence` as they
\* were, and creates no Registry.
C18_SwitchKeepsRecords ==
    [][last'.op = "switch"
          => /\ (reg = NoFile) = (reg' = NoFile)
             /\ reg' # NoFile =>
                   /\ reg'.doc.accounts = reg.doc.accounts
                   /\ reg'.doc.sequence = reg.doc.sequence]_vars

\* A switch has moved the pointer from one of two records to the other.
C18_Witness ==
    /\ last.op = "switch"
    /\ last.err = OK
    /\ last.cur \notin {0, last.arg}
    /\ reg.doc.activeAccountNumber = last.arg
    /\ DOMAIN Accounts = {1, 2}
    /\ Accounts[1].email = "(unknown)"

\* ---- email values ----------------------------------------------------------

\* A token, a credential text, an archived credential and a Registry with
\* every email value in it replaced by one and the same address.
CanonToken(t) == IF "email" \in DOMAIN t THEN [t EXCEPT !.email = "a@x"] ELSE t

CanonCreds(c) ==
    IF c.kind # "creds" THEN c
    ELSE IF "idToken" \in DOMAIN c
         THEN CredsWithId(CanonToken(c.token), CanonToken(c.idToken))
         ELSE CredsOf(CanonToken(c.token))

CanonArchive(a) == IF a = NoFile THEN a ELSE Base64Encode(CanonCreds(Base64Decode(a)))

CanonRegistry(r) ==
    IF r = NoFile THEN r
    ELSE JsonText([r.doc EXCEPT !.accounts = [n \in DOMAIN r.doc.accounts |->
                      [r.doc.accounts[n] EXCEPT !.email =
                          IF @ \in Emails THEN "a@x" ELSE @]]], r.fmt)

\* The files f with every email value replaced: a state that differs from
\* f in email values only.
CanonEmails(f) ==
    [f EXCEPT !.creds = CanonCreds(f.creds),
              !.reg = CanonRegistry(f.reg),
              !.credsDir = [n \in Nums |-> CanonArchive(f.credsDir[n])]]

\* A save on files f stays within the account numbers of the model.
SaveBounded(f) ==
    SaveCheck(f).err # OK \/ nextNum(getSeqData(initSequenceFile(f))) <= MaxNum

\* Two outcomes that agree but for email values.
SameButEmails(r1, r2) ==
    /\ r1.err = r2.err
    /\ r1.num = r2.num
    /\ CanonEmails(r1.fs) = CanonEmails(r2.fs)

\* Every call has the same outcome on the files as on the files with other
\* email values.
EmailIndependent ==
    /\ (SaveBounded(FS) /\ SaveBounded(CanonEmails(FS)))
          => SameButEmails(saveCurrentAccount(FS), saveCurrentAccount(CanonEmails(FS)))
    /\ \A n \in Nums :
          SameButEmails(switchToAccount(FS, n), switchToAccount(CanonEmails(FS), n))

\* The tokens of files f that claim an email also carry a sub claim.
EmailTokensHaveSub(f) ==
    LET ok(c) == c.kind = "creds" /\ EmailOf(c.token) # NoEmail => c.token.sub # NoSub
    IN  /\ ok(f.creds)
        /\ \A n \in Nums : f.credsDir[n] # NoFile => ok(Base64Decode(f.credsDir[n]))

Contains(field, text) ==
    \E i \in 0..(Len(field) - Len(text)) : SubSeq(field, i + 1, i + Len(text)) = text

\* The access token behind an account of the snapshot: the live one for the
\* active account, else the archived one.
TokenBehind(account) ==
    getToken(IF account.isActive THEN readCurrentCredentials(FS)
             ELSE readBackupCreds(FS, account.num))

\* C20: in the snapshot a call leaves, the token field of no account holds
\* the whole access token, and another token of the same length has the
\* same masked form (the shown form does not determine the token).
C20_NoUnmaskedToken ==
    last.debug # Null =>
        \A i \in 1..Len(last.debug.accounts) :
            LET account == last.debug.accounts[i]
                token == TokenBehind(account)
            IN  token # Null =>
                    /\ ~Contains(account.token, TokenText(token))
                    /\ \E t \in TokenTexts :
                          /\ t # TokenText(token)
                          /\ Len(t) = Len(TokenText(token))
                          /\ MaskText(t) = account.token

\* ---- identity resolution ---------------------------------------------------

\* The credential texts of a state: the live one and the archived ones.
CredTexts ==
    {readCurrentCredentials(FS)} \cup {readBackupCreds(FS, n) : n \in Nums}

\* The access token a credential text holds, and whether its middle part
\* decodes to a document with a `sub` key.
HasAccessToken(c) == c.kind = "creds" /\ c.token.kind # "none"
HasSubClaim(token) == token.kind = "jwt" /\ token.sub # NoSub

\* The three cases of identity resolution, `claimed` telling the tokens
\* whose sub claim is the identity.
Resolves(c, claimed(_)) ==
    IF ~HasAccessToken(c) THEN getSubFromCreds(c) = NoSub
    ELSE IF claimed(c.token) THEN getSubFromCreds(c) = c.token.sub
    ELSE getSubFromCreds(c) = "fp-" \o Fingerprint(c.token)

\* C21: without an access token the identity is null; with a decodable
\* token that has a sub claim it is that claim; in every other case it is
\* "fp-" and the fingerprint of the token.
C21_IdentityResolution ==
    \A c \in CredTexts : Resolves(c, HasSubClaim)

\* C21, amended: the same, the sub claim being the identity when it is not
\* empty, for access tokens that are strings.
C21_IdentityResolutionNonEmpty ==
    \A c \in CredTexts :
        (HasAccessToken(c) => c.token.kind # "number")
            => Resolves(c, LAMBDA t : HasSubClaim(t) /\ t.sub # EmptySub)

\* An account saved under its sub claim and one under the fingerprint of a
\* decodable token that has no sub claim, the CLI then logged in without an
\* access token.
C21_Witness ==
    /\ DOMAIN Accounts = {1, 2}
    /\ {Accounts[n].sub : n \in {1, 2}} = {"s1", "fp-" \o Fingerprint(JwtNoSub)}
    /\ creds = CredsOf(NoToken)
    /\ getSubFromCreds(creds) = NoSub

\* Opaque tokens: not decodable as a signed token.
OpaqueTokens == {t \in ShapeTokens : t.kind \in {"opaque", "dotted"}}

\* The numbers whose archived credential holds an opaque token.
OpaqueArchives ==
    {n \in DOMAIN Accounts :
        /\ readBackupCreds(FS, n) # Null
        /\ getToken(readBackupCreds(FS, n)) \in OpaqueTokens}

Subs == {"s1", "s2"}

\* A record of the Registry carries sub s.
Carried(s) == \E n \in DOMAIN Accounts : Accounts[n].sub = s

\* The records of the older schema.
LegacyRecords == {n \in DOMAIN Accounts : Accounts[n].sub = NoSub}

\* C23: an identity that no record carries is not saved, records without
\* sub or not; a save of a live account that no record carries, its config
\* file present, succeeds under a number that was no key of `accounts`,
\* also when a record without sub has the live account's email.
C23_LegacyRecordNeverMatches ==
    [][/\ \A s \in Subs : ~Carried(s) => ~isSaved(getSeqData(FS), s)
       /\ (/\ last'.op = "save"
           /\ LiveSub # NoSub
           /\ ~Carried(LiveSub)
           /\ LiveConfigText # NoFile)
          => /\ last'.err = OK
             /\ last'.num \notin DOMAIN Accounts
             /\ Accounts'[last'.num].sub = LiveSub
             /\ \A n \in DOMAIN Accounts : Accounts'[n] = Accounts[n]]_vars

\* A successful save next to a record without sub that has the same email.
C23_Witness ==
    /\ last.op = "save"
    /\ last.err = OK
    /\ \E n \in LegacyRecords :
          /\ n # last.num
          /\ Accounts[n].email = Accounts[last.num].email
          /\ Accounts[n].email = getEmailHintFromCreds(creds)

\* ---- archive integrity ------------------------------------------------------

\* C26: the archived credential of every record that carries a sub resolves
\* to that sub.
C26_ArchiveResolvesToRecord ==
    \A n \in DOMAIN Accounts :
        (Accounts[n].sub # NoSub /\ readBackupCreds(FS, n) # Null)
            => getSubFromCreds(readBackupCreds(FS, n)) = Accounts[n].sub

\* C27: every account of the Registry can be switched to: its archived
\* credential exists, its archived config exists and has an oauthAccount,
\* and switchToAccount succeeds for it.
C27_SavedStaysSwitchable ==
    \A n \in DOMAIN Accounts :
        /\ readBackupCreds(FS, n) # Null
        /\ readBackupConfig(FS, n) # Null
        /\ readBackupConfig(FS, n).kind = "json"
        /\ readBackupConfig(FS, n).doc.oauth # NoOAuth
        /\ switchToAccount(FS, n).err = OK

\* ---- errors of a switch -----------------------------------------------------

\* C28: a switch that ends in an error leaves the live credential file and
\* the live config files as they were.
C28_ErrorLeavesLiveFiles ==
    [][(last'.op = "switch" /\ last'.err \notin {OK, Crashed})
          => (creds' = creds /\ cfg' = cfg)]_vars

\* ---- a crash inside a switch ------------------------------------------------

\* The oauthAccount of the account a credential text belongs to is the one
\* in the config archived next to it.
Paired(credsFile, configFile) ==
    (credsFile # NoFile /\ configFile # NoFile /\ configFile.kind = "json")
        => configFile.doc.oauth = OAuthOf(Base64Decode(credsFile))

ArchivePaired == \A n \in Nums : Paired(credsDir[n], configsDir[n])

\* The live credential is of another account than the live oauthAccount:
\* the state a switch leaves that died between the two overwrites.
LiveMixed ==
    /\ creds # NoFile
    /\ LiveConfigText # NoFile
    /\ LiveConfigText.doc.oauth # OAuthOf(creds)

\* C29: after a switch that died between the overwrite of the live
\* credential and that of the live config, the archive pairing every
\* credential with its own account's oauthAccount, the next successful
\* switch leaves the archive so paired.
C29_CrashKeepsArchivePaired ==
    [][(/\ last.op = "switch"
        /\ last.err = Crashed
        /\ LiveMixed
        /\ ArchivePaired
        /\ last'.op = "switch"
        /\ last'.err = OK)
          => ArchivePaired']_vars

\* ---- a switch to no account -------------------------------------------------

\* C30: a switch without a Registry document fails with 'No managed
\* accounts', one to a number that is no key of `accounts` with 'Account-N
\* not found' naming the number; either leaves every file as it was.
C30_NotFoundWritesNothing ==
    [][last'.op = "switch"
          => /\ getSeqData(FS) = Null <=> last'.err = ErrNoAccounts
             /\ (getSeqData(FS) # Null /\ last'.arg \notin DOMAIN Accounts)
                    <=> (last'.err = ErrNotFound /\ last'.num = last'.arg)
             /\ last'.err \in {ErrNoAccounts, ErrNotFound} => files' = files]_vars

\* A switch to a number whose record was removed, its archive files still
\* there: they stay.
C30_Witness ==
    /\ last.op = "switch"
    /\ last.err = ErrNotFound
    /\ credsDir[last.arg] # NoFile
    /\ configsDir[last.arg] # NoFile
    /\ creds # NoFile

\* ---- the Registry under several processes ----------------------------------

\* C24: the Registry path never holds a text that is not whole, whatever
\* step of writeJSON a process is at or died at; it changes only by the
\* rename of a process, to the whole document that process was writing.
C24_RegistryWriteAtomic ==
    [][/\ reg'.kind \in {"nofile", "json"}
       /\ reg' # reg =>
             \E p \in Pids :
                 /\ proc[p].pc = "rename"
                 /\ proc'[p].pc = "chmod"
                 /\ reg' = JsonText(proc[p].out, "pretty")]_vars

\* A process died with its temp file half written, over a Registry that
\* holds the record of the other process.
C24_Witness ==
    \E p \in Pids :
        /\ proc[p].pc = "dead"
        /\ tmpFiles[p] = PartialText
        /\ proc[p].next = "return"
        /\ reg # NoFile
        /\ DOMAIN Accounts = {1}

\* Both processes have returned from saveCurrentAccount without an error.
BothSaved == \A p \in Pids : proc[p].pc = "done" /\ proc[p].err = OK

\* The record of the save of process p is in the Registry.
Recorded(p) ==
    /\ proc[p].num \in DOMAIN Accounts
    /\ Accounts[proc[p].num].sub = getSubFromCreds(proc[p].credsText)

\* C25: nothing keeps two saves apart: two saves that returned after
\* reading the same Registry document returned the same account number,
\* and the Registry after both is the document of one of them alone.
C25_ConcurrentSavesCollide ==
    BothSaved =>
        /\ \A p, q \in Pids : proc[p].data = proc[q].data => proc[p].num = proc[q].num
        /\ \E p \in Pids : reg = JsonText(proc[p].out, "pretty")

\* Both saves returned the same account number, and the save of one has no
\* record in the Registry.
C25_Witness ==
    /\ BothSaved
    /\ \A p, q \in Pids : proc[p].num = proc[q].num
    /\ \E p \in Pids : ~Recorded(p)


\* ---- an archived credential that cannot be decoded ---------------------------

\* The archived credential of account n is not an encoded credential text.
IsUndecodable(n) == credsDir[n] # NoFile /\ credsDir[n].kind = "raw"

\* C31: a switch to an account whose archived credential cannot be decoded
\* (the account is not the current one, whose archive the switch rewrites
\* first) fails with the missing-backup error and leaves the live credential
\* file as it was.
C31_UndecodableIsMissing ==
    [][(/\ last'.op = "switch"
        /\ last'.arg \in DOMAIN Accounts
        /\ IsUndecodable(last'.arg)
        /\ last'.cur # last'.arg
        /\ last'.err # ErrENOENT)
          => (last'.err = ErrMissingBackup /\ creds' = creds)]_vars


\* ---- migration and the number-only names already taken ----------------------

\* C32: activation leaves every number-only archive file that existed with
\* its contents; where a record's (num, email) file and the number-only file
\* of num both exist, the (num, email) file is left under its name; and a
\* second run of the migration on the files the first one leaves changes
\* nothing.
C32_MigrationKeepsNumberOnly ==
    [][last'.op = "activate"
          => /\ \A n \in Nums :
                  /\ credsDir[n] # NoFile => credsDir'[n] = credsDir[n]
                  /\ configsDir[n] # NoFile => configsDir'[n] = configsDir[n]
             /\ \A n \in DOMAIN Accounts :
                  LET e == Accounts[n].email
                  IN  /\ (e \in Emails /\ legacy.creds[n][e] # NoFile /\ credsDir[n] # NoFile)
                          => legacy'.creds[n][e] = legacy.creds[n][e]
                      /\ (e \in Emails /\ legacy.configs[n][e] # NoFile
                              /\ configsDir[n] # NoFile)
                          => legacy'.configs[n][e] = legacy.configs[n][e]
             /\ migrateBackupFilenames(FS', getSeqData(FS')) = FS']_vars

\* Activation found both names of account 1 taken, in both directories, with
\* different contents, and left the four files.
C32_Witness ==
    /\ last.op = "activate"
    /\ credsDir[1] = Base64Encode(CredsOf(JwtS1b))
    /\ legacy.creds[1]["a@x"] = LegacyCredsFile("a@x")
    /\ configsDir[1] = JsonText(ConfigDoc("oa-s1", "y"), "raw")
    /\ legacy.configs[1]["a@x"] = LegacyConfigFile("a@x")


\* ---- the two candidate config paths -----------------------------------------

\* The candidate path getConfigPath did not choose.
OtherPath(configPath) == CHOOSE p \in ConfigPaths : p # configPath

\* C34: the primary path is chosen exactly when its file parses and holds an
\* oauthAccount; a save or a switch leaves the file at the other path as it
\* was, archives the text of the file at the chosen path, and a successful
\* switch leaves the restored oauthAccount in the file at the chosen path.
C34_ConfigPathSelection ==
    [][LET chosen == getConfigPath(FS)
           primary == cfg["primary"]
       IN  /\ chosen = "primary"
                 <=> (primary.kind = "json" /\ primary.doc.oauth # NoOAuth)
           /\ chosen # "primary" => chosen = "fallback"
           /\ last'.op \in {"save", "switch"}
                 => /\ cfg'[OtherPath(chosen)] = cfg[OtherPath(chosen)]
                    /\ (last'.op = "save" /\ last'.err = OK)
                          => configsDir'[last'.num] = cfg[chosen]
                    /\ (last'.op = "switch" /\ last'.cur # 0
                            /\ last'.err \in {OK, ErrMissingBackup})
                          => configsDir'[last'.cur] = cfg[chosen]
                    /\ (last'.op = "switch" /\ last'.err = OK)
                          => /\ cfg'[chosen].kind = "json"
                             /\ cfg'[chosen].doc.oauth = configsDir'[last'.arg].doc.oauth]_vars

\* A switch succeeded, writing the fallback path, while a file that does not
\* parse lay at the primary path and was left as it was.
C34_Witness ==
    /\ last.op = "switch"
    /\ last.err = OK
    /\ cfg["primary"] = JunkText
    /\ cfg["fallback"].kind = "json"
    /\ cfg["fallback"].fmt = "pretty"


\* ---- refreshAll writes nothing -----------------------------------------------

\* C35: no step of a refreshAll call, whatever ran since the step before,
\* changes the live credential, a live config, an archive file or the
\* Registry; a step of the program that changes one of them is a save, a
\* switch (its orphan cleanup included) or the startup migration.
C35_RefreshWritesNothing ==
    [][/\ last'.op = "refreshAll" => UNCHANGED files
       /\ ~UNCHANGED files => last'.op \in {"save", "switch", "activate", "none"}]_vars

\* A refreshAll call has taken a step, its last row answered, on files other
\* than those it began on: the Registry and the live credential it read are
\* not the present ones.
C35_Witness ==
    \E i \in RefreshIds :
        /\ last.op = "refreshAll"
        /\ last.arg = i
        /\ refresh[i].pc = "fallback"
        /\ refresh[i].rows # <<>>
        /\ refresh[i].seqData # getSeqData(FS)
        /\ refresh[i].credsText # readCurrentCredentials(FS)


\* ---- a chmod or a rename that fails -------------------------------------------

\* The call `op` on the files f: what it throws or returns and the files it
\* leaves.
Perform(op, arg, f) ==
    IF op = "save" THEN saveCurrentAccount(f)
    ELSE IF op = "switch" THEN switchToAccount(f, arg)
    ELSE Outcome(migrateBackupFilenames(f, getSeqData(f)), OK, 0, 0)

\* The same files on a file system that refuses nothing.
Granted(f) == [f EXCEPT !.perm.noChmod = {}, !.perm.noRename = {}]

\* C33: a save, a switch or the startup migration on a file system on which
\* a chmod or a rename fails ends as it does where none fails (same error or
\* result, same contents of every file, same modes), but for the step that
\* failed: a file whose rename failed, and the name it was to get, are as
\* they were before the call, and a file whose chmod failed is not made 0600.
C33_DeniedStepOnlySkipped ==
    [][last'.op \in {"save", "switch", "activate"}
          => LET r0 == Perform(last'.op, last'.arg, Granted(FS))
                 skipped == IF last'.op = "activate" THEN perm.noRename ELSE {}
                 asBefore == skipped \cup {NewName(q) : q \in skipped}
             IN  /\ last'.err = r0.err
                 /\ last'.num = r0.num
                 /\ creds' = r0.fs.creds
                 /\ cfg' = r0.fs.cfg
                 /\ reg' = r0.fs.reg
                 /\ \A n \in Nums :
                       /\ IF Path("legacy-credentials", n) \in skipped
                          THEN credsDir'[n] = credsDir[n]
                               /\ legacy'.creds[n] = legacy.creds[n]
                          ELSE credsDir'[n] = r0.fs.credsDir[n]
                               /\ legacy'.creds[n] = r0.fs.legacy.creds[n]
                       /\ IF Path("legacy-configs", n) \in skipped
                          THEN configsDir'[n] = configsDir[n]
                               /\ legacy'.configs[n] = legacy.configs[n]
                          ELSE configsDir'[n] = r0.fs.configsDir[n]
                               /\ legacy'.configs[n] = r0.fs.legacy.configs[n]
                 /\ \A p \in Paths :
                       IF p \in asBefore
                       THEN p \in perm'.private <=> p \in perm.private
                       ELSE IF last'.op # "activate" /\ p \in perm.noChmod
                            THEN p \in perm'.private => p \in perm.private
                       ELSE p \in perm'.private <=> p \in r0.fs.perm.private]_vars

\* A switch succeeded although the chmod of the live credential file failed:
\* the archived credential is installed in a file that is not of mode 0600,
\* and the config file and the Registry, written after it, are.
C33_Witness ==
    /\ last.op = "switch"
    /\ last.err = OK
    /\ perm.noChmod = {Path("creds", 0)}
    /\ creds = Base64Decode(credsDir[last.arg])
    /\ last.cur # last.arg
    /\ Path("creds", 0) \notin perm.private
    /\ Path(SEQUENCE_FILE, 0) \in perm.private
    /\ Path("fallback", 0) \in perm.private

====
